---- MODULE Spec2Model ----
(***************************************************************************)
(* mur: registry adapter selection and the artifact install / uninstall    *)
(* orchestration (src/mur/adapters, src/mur/commands).                     *)
(*                                                                         *)
(* Text (artifact names, URLs, file contents) is modelled as sequences of  *)
(* one-character strings so that lower(), replace(), startswith(), strip() *)
(* and the substring test `in` are computed the way the Python code        *)
(* computes them.                                                          *)
(***************************************************************************)
EXTENDS Integers, Sequences, FiniteSets, TLC

VARIABLES
    cfg_files,      \* .murmurrc files: path -> parsed content (or absent)
    fac_in,         \* arguments of get_registry_adapter: [path, verbose]
    fac_out,        \* its outcome: [state, adapter, code]
    env,            \* installed distributions: set of [name, version]
    fs,             \* the __init__.py aggregation files: dir -> content or Absent
    ns_found,       \* importlib.util.find_spec('murmur') has search locations
    murmur_ok,      \* importlib.util.find_spec('murmur') is not None (install)
    username,       \* auth_manager.config.get('username'), <<>> when unset
    index_url,      \* primary index resolved from .murmurrc
    extra_index_urls, \* extra indexes resolved from .murmurrc
    requires_dist,  \* what the registry metadata endpoint declares
    manifest,       \* murmur.yaml: [agents, tools]
    pc,             \* position of the running command
    stack,          \* pending artifact lists of _install_artifact_group
    todo,           \* pending names of _uninstall_from_manifest
    log,            \* observable events of the commands, in order
    exit,           \* how the last command ended: [status, code]
    ncmds,          \* number of commands started
    call,           \* the adapter or API-client call made last: [op, ...]
    result,         \* how that call ended: [state, value, err]
    net             \* the network and upload attempts of that call, in order

vars == <<cfg_files, fac_in, fac_out, env, fs, ns_found, murmur_ok,
          username, index_url, extra_index_urls, requires_dist, manifest,
          pc, stack, todo, log, exit, ncmds, call, result, net>>

facVars == <<cfg_files, fac_in, fac_out>>
diskVars == <<env, fs, ns_found, murmur_ok, username, index_url,
              extra_index_urls, requires_dist, manifest>>
runVars == <<pc, stack, todo, log, exit, ncmds>>
apiVars == <<call, result, net>>

---------------------------------------------------------------------------
(* Bounds of the model *)

MaxCmds == 1        \* commands run one after the other in one behaviour

---------------------------------------------------------------------------
(* Text helpers: Python str operations on sequences of characters *)

NL == "\n"

\* str.lower() on one character
LowerChar(c) ==
    CASE c = "A" -> "a"
      [] c = "T" -> "t"
      [] c = "U" -> "u"
      [] OTHER -> c

\* str.lower()
Lower(s) == [i \in 1..Len(s) |-> LowerChar(s[i])]

\* str.replace(a, b) for single characters a, b
ReplaceChar(s, a, b) == [i \in 1..Len(s) |-> IF s[i] = a THEN b ELSE s[i]]

\* str.startswith(p)
StartsWith(s, p) == Len(p) <= Len(s) /\ SubSeq(s, 1, Len(p)) = p

\* str.endswith(p)
EndsWith(s, p) == Len(p) <= Len(s) /\ SubSeq(s, Len(s) - Len(p) + 1, Len(s)) = p

\* p in s  (substring test)
Contains(s, p) ==
    \E i \in 1..(Len(s) - Len(p) + 1) : SubSeq(s, i, i + Len(p) - 1) = p

\* s[n:]
Drop(s, n) == SubSeq(s, n + 1, Len(s))

\* str.replace(p, r) for a non-empty pattern p: every occurrence, left to right
RECURSIVE ReplaceAll(_, _, _)
ReplaceAll(s, p, r) ==
    IF Len(s) < Len(p) \/ Len(p) = 0 THEN s
    ELSE IF StartsWith(s, p) THEN r \o ReplaceAll(Drop(s, Len(p)), p, r)
    ELSE <<s[1]>> \o ReplaceAll(Drop(s, 1), p, r)

IsSpace(c) == c \in {" ", NL, "\t"}

\* str.lstrip()
RECURSIVE LStrip(_)
LStrip(s) == IF s # <<>> /\ IsSpace(s[1]) THEN LStrip(Drop(s, 1)) ELSE s

\* str.rstrip()
RECURSIVE RStrip(_)
RStrip(s) ==
    IF s # <<>> /\ IsSpace(s[Len(s)]) THEN RStrip(SubSeq(s, 1, Len(s) - 1)) ELSE s

\* str.strip()
Strip(s) == RStrip(LStrip(s))

\* file.readlines(): the lines of a text, each keeping its line ending
RECURSIVE ReadLines(_)
ReadLines(text) ==
    IF text = <<>> THEN <<>>
    ELSE IF \E i \in 1..Len(text) : text[i] = NL
         THEN LET k == CHOOSE i \in 1..Len(text) :
                          text[i] = NL /\ \A j \in 1..(i - 1) : text[j] # NL
              IN  <<SubSeq(text, 1, k)>> \o ReadLines(Drop(text, k))
         ELSE <<text>>

\* file.writelines(lines)
RECURSIVE WriteLines(_)
WriteLines(lines) ==
    IF lines = <<>> THEN <<>> ELSE Head(lines) \o WriteLines(Tail(lines))

---------------------------------------------------------------------------
(* Registry URLs *)

DEFAULT_MURMUR_INDEX_URL ==
    <<"h","t","t","p","s",":","/","/","a","r","t","i","f","a","c","t","s",".",
      "m","u","r","m","u","r",".","n","e","x","u","s","/","s","i","m","p","l","e">>

\* the default with a trailing slash: a different string
UrlDefaultSlash == DEFAULT_MURMUR_INDEX_URL \o <<"/">>

UrlPypi ==
    <<"h","t","t","p","s",":","/","/","p","y","p","i",".","o","r","g","/",
      "s","i","m","p","l","e">>

\* the managed domain itself, without a sub-domain
UrlApex ==
    <<"h","t","t","p","s",":","/","/","m","u","r","m","u","r",".","n","e","x","u","s",
      "/","s","i","m","p","l","e">>

\* a private index whose path holds the managed domain's name
UrlPathNexus ==
    <<"h","t","t","p","s",":","/","/","p","y","p","i",".","c","o","r","p","/",
      ".","m","u","r","m","u","r",".","n","e","x","u","s","/","s","i","m","p","l","e">>

\* a foreign host that has the managed domain's name as an inner label
UrlEvilHost ==
    <<"h","t","t","p","s",":","/","/","a",".","m","u","r","m","u","r",".",
      "n","e","x","u","s",".","e","v","i","l",".","i","o","/","s","i","m","p","l","e">>

UrlEmpty == <<>>

---------------------------------------------------------------------------
(* .murmurrc files as configparser reads them *)

\* What configparser gives for a file: whether it exists, whether reading it
\* and getting its values raises (parses), the section it holds (name, when
\* section is TRUE), and the index-url and extra-index-url options of that
\* section.
Cfg(exists, parses, section, name, has_key, url, has_extra, extra) ==
    [exists |-> exists, parses |-> parses, section |-> section, name |-> name,
     has_key |-> has_key, index_url |-> url,
     has_extra |-> has_extra, extra |-> extra]

\* A file that does not exist reads as an empty configuration
\* (ConfigParser.read skips missing files).
CfgAbsent == Cfg(FALSE, TRUE, FALSE, "murmur-nexus", FALSE, <<>>, FALSE, <<>>)
\* configparser raises while reading the file or while getting the value
CfgMalformed == Cfg(TRUE, FALSE, FALSE, "murmur-nexus", FALSE, <<>>, FALSE, <<>>)
CfgNoSection == Cfg(TRUE, TRUE, FALSE, "murmur-nexus", FALSE, <<>>, FALSE, <<>>)
CfgNoKey == Cfg(TRUE, TRUE, TRUE, "murmur-nexus", FALSE, <<>>, FALSE, <<>>)
CfgWithUrl(u) == Cfg(TRUE, TRUE, TRUE, "murmur-nexus", TRUE, u, FALSE, <<>>)

FactoryUrls ==
    {DEFAULT_MURMUR_INDEX_URL, UrlDefaultSlash, UrlPypi, UrlApex, UrlEmpty}

CfgContents ==
    {CfgAbsent, CfgMalformed, CfgNoSection, CfgNoKey}
        \cup {CfgWithUrl(u) : u \in FactoryUrls}

CfgPaths == {"local", "global"}

\* config.has_section('murmur-nexus')
HasSection(c) == c.section /\ c.name = "murmur-nexus"

\* config.has_option('murmur-nexus', 'index-url')
HasOption(c) == HasSection(c) /\ c.has_key

---------------------------------------------------------------------------
(* Adapter factory *)

\* outcome of verify_registry_settings: [raised, code, value]
VerifyRegistrySettingsAlwaysPublic(c) ==
    IF ~c.parses THEN [raised |-> TRUE, code |-> 213, value |-> FALSE]
    ELSE IF ~HasSection(c) \/ ~HasOption(c)
         THEN [raised |-> TRUE, code |-> 213, value |-> FALSE]
    ELSE [raised |-> FALSE, code |-> 0, value |-> FALSE]

VerifyRegistrySettingsSilentDefault(c) ==
    IF ~c.parses THEN [raised |-> TRUE, code |-> 213, value |-> FALSE]
    ELSE IF ~HasSection(c) \/ ~HasOption(c)
         THEN [raised |-> FALSE, code |-> 0, value |-> FALSE]
    ELSE [raised |-> FALSE, code |-> 0,
          value |-> c.index_url # DEFAULT_MURMUR_INDEX_URL]

VerifyRegistrySettings(c) ==
    IF ~c.parses
    THEN \* any other exception is wrapped
         [raised |-> TRUE, code |-> 213, value |-> FALSE]
    ELSE IF ~HasSection(c) \/ ~HasOption(c)
         THEN [raised |-> TRUE, code |-> 213, value |-> FALSE]
    ELSE [raised |-> FALSE, code |-> 0,
          value |-> c.index_url # DEFAULT_MURMUR_INDEX_URL]

\* outcome of get_registry_adapter: [state, adapter, code]
GetRegistryAdapterResult(c) ==
    LET v == VerifyRegistrySettings(c)
    IN  IF v.raised
        THEN [state |-> "raised", adapter |-> "none", code |-> v.code]
        ELSE IF v.value
             THEN [state |-> "returned", adapter |-> "private", code |-> 0]
             ELSE [state |-> "returned", adapter |-> "public", code |-> 0]

FacIdle == [state |-> "idle", adapter |-> "none", code |-> 0]

\* get_registry_adapter(murmurrc_path, verbose)
GetRegistryAdapter ==
    /\ fac_out.state = "idle"
    /\ fac_out' = GetRegistryAdapterResult(cfg_files[fac_in.path])
    /\ UNCHANGED <<cfg_files, fac_in>>
    /\ UNCHANGED diskVars
    /\ UNCHANGED runVars
    /\ UNCHANGED apiVars

---------------------------------------------------------------------------
(* Artifacts, versions, the installed environment *)

NameA  == <<"a">>
NameT  == <<"t">>
NameTU == <<"T","-","u">>
DepD   == <<"d">>
DepE   == <<"e">>

\* version.lower() on the versions of the model
VersionLower(v) == IF v = "LATEST" THEN "latest" ELSE v

NotFound == "not-found"      \* importlib.metadata.PackageNotFoundError
\* the newest version the index offers for every artifact
LatestVersion == "2.0"

\* name comparison of importlib.metadata / pip
PipNormalize(name) == ReplaceChar(ReplaceChar(Lower(name), "-", "_"), ".", "_")

\* importlib.metadata.version(artifact_name)
InstalledVersion(e, name) ==
    IF \E d \in e : PipNormalize(d.name) = PipNormalize(name)
    THEN (CHOOSE d \in e : PipNormalize(d.name) = PipNormalize(name)).version
    ELSE NotFound

\* what a successful `pip install` leaves behind
PipInstalled(e, name, v) ==
    {d \in e : PipNormalize(d.name) # PipNormalize(name)}
        \cup {[name |-> name, version |-> v]}

\* what a successful `pip uninstall -y` leaves behind
PipUninstalled(e, name) == {d \in e : d.name # name}

Art(n, v, ts) == [name |-> n, version |-> v, tools |-> ts]

---------------------------------------------------------------------------
(* Errors and events *)

\* an exception in flight: its class, the MurError code, and the class and code
\* of the original_error a MurError carries
NoErr == [kind |-> "none", code |-> 0, cause |-> "none", cause_code |-> 0]
Exc(kind) == [kind |-> kind, code |-> 0, cause |-> "none", cause_code |-> 0]
MurError(c, orig) ==
    [kind |-> "MurError", code |-> c, cause |-> orig.kind, cause_code |-> orig.code]
Raised(st) == st.err.kind # "none"

Ev(op, name, ver, aux, url, extras) ==
    [op |-> op, name |-> name, ver |-> ver, aux |-> aux, url |-> url,
     extras |-> extras]

Emit(st, e) == [st EXCEPT !.log = Append(@, e)]
Raise(st, err) == [st EXCEPT !.err = err]

---------------------------------------------------------------------------
(* The aggregation files *)

FileAbsent == [exists |-> FALSE, text |-> <<>>]
File(text) == [exists |-> TRUE, text |-> text]

FROM_DOT == <<"f","r","o","m"," ",".">>
MAIN_IMPORT == <<".","m","a","i","n"," ","i","m","p","o","r","t"," ">>

\* artifact_name.lower().replace('-', '_')
Pep8(name) == ReplaceChar(Lower(name), "-", "_")

\* import_line of _update_init_file
ImportLine(name) == FROM_DOT \o Pep8(name) \o MAIN_IMPORT \o Pep8(name)

\* current_content of _update_init_file, with the line ending ensured
WithLineEnding(text) == IF EndsWith(text, <<NL>>) THEN text ELSE text \o <<NL>>

\* the write of _update_init_file to an existing file
AppendIfMissing(f, current, line) ==
    IF ~Contains(current, line) THEN File(current \o line \o <<NL>>) ELSE f

UpdateInitFileAlwaysAppend(f, name) ==
    IF ~f.exists THEN File(ImportLine(name) \o <<NL>>)
    ELSE File(WithLineEnding(f.text) \o ImportLine(name) \o <<NL>>)

\* _update_init_file: the new content of artifacts/__init__.py
UpdateInitFile(f, name) ==
    IF ~f.exists THEN File(ImportLine(name) \o <<NL>>)
    ELSE AppendIfMissing(f, WithLineEnding(f.text), ImportLine(name))

---------------------------------------------------------------------------
(* InstallArtifactCommand *)

MANAGED_MARK == <<".","m","u","r","m","u","r",".","n","e","x","u","s">>

\* the verdict of _is_artifact_installed on the version importlib reports
VersionSatisfiesExactOnly(iv, version) ==
    IF iv = NotFound THEN FALSE ELSE iv = version

VersionSatisfies(iv, version) ==
    IF iv = NotFound THEN FALSE
    ELSE IF VersionLower(version) = "latest" \/ version = "" THEN TRUE
    ELSE iv = version

\* _is_artifact_installed
IsArtifactInstalled(e, name, version) ==
    VersionSatisfies(InstalledVersion(e, name), version)

\* artifact_spec of _install_artifact: the name, pinned unless latest or empty
ArtifactSpecPin(version) ==
    IF VersionLower(version) \in {"latest", ""} THEN "" ELSE version

\* the version a successful install of a spec leaves installed
VersionInstalled(pin) == IF pin = "" THEN LatestVersion ELSE pin

\* subprocess.check_call of a pip install command that was logged in st; on a
\* nonzero exit the text pip wrote to its stderr went to the terminal (logged
\* in the url field of a pip_exit event) and CalledProcessError is raised
CheckCall(st, name, v, res, stderr) ==
    IF res = "ok" THEN [st EXCEPT !.env = PipInstalled(@, name, v)]
    ELSE Raise(Emit(st, Ev("pip_exit", name, "", "nonzero", stderr, <<>>)),
               Exc("CalledProcessError"))

\* _main_artifact_command: pip install --no-deps <spec> --index-url <index_url>
MainArtifactCommand(st, name, pin, url, out) ==
    CheckCall(Emit(st, Ev("pip_install", name, pin, "no-deps", url, <<>>)),
              name, VersionInstalled(pin), out.main, out.stderr)

\* the extra-index flags _dependencies_artifact_command passes
DependencyExtraFlags(url, extras) ==
    <<url>> \o (IF Len(Tail(extras)) > 1 THEN Tail(extras) ELSE <<>>)

\* _dependencies_artifact_command
DependenciesArtifactCommand(st, dep, url, extras, res, stderr) ==
    IF extras = <<>>
    THEN Raise(st, Exc("IndexError"))        \* extra_index_urls[0]
    ELSE CheckCall(Emit(st, Ev("pip_install", dep, "", "dep", Head(extras),
                               DependencyExtraFlags(url, extras))),
                   dep, LatestVersion, res, stderr)

RECURSIVE InstallDependenciesIsolated(_, _, _, _, _, _)
InstallDependenciesIsolated(st, deps, i, url, extras, out) ==
    IF i > Len(deps) THEN st
    ELSE InstallDependenciesIsolated(
             Raise(DependenciesArtifactCommand(st, deps[i], url, extras,
                                               out.deps[i], out.stderr), NoErr),
             deps, i + 1, url, extras, out)

\* the loop over requires_dist in _process_artifact_metadata
RECURSIVE InstallDependencies(_, _, _, _, _, _)
InstallDependencies(st, deps, i, url, extras, out) ==
    IF i > Len(deps) \/ Raised(st) THEN st
    ELSE InstallDependencies(
             DependenciesArtifactCommand(st, deps[i], url, extras, out.deps[i],
                                         out.stderr),
             deps, i + 1, url, extras, out)

\* what _process_artifact_metadata does with the answer to its GET request
MetadataAnswered(st, url, extras, deps, out) ==
    CASE out.meta = "conn"    -> Raise(st, MurError(806, Exc("ConnectionError")))
      [] out.meta = "timeout" -> Raise(st, MurError(804, Exc("Timeout")))
      [] out.meta = "http"    -> Raise(st, MurError(803, Exc("RequestException")))
      [] OTHER -> InstallDependencies(st, deps, 1, url, extras, out)

\* _process_artifact_metadata
ProcessArtifactMetadata(st, name, url, extras, deps, out) ==
    MetadataAnswered(
        Emit(st, Ev("metadata_get", ReplaceChar(name, "_", "-"), "", "", url, <<>>)),
        url, extras, deps, out)

CONNECTION_REFUSED ==
    <<"C","o","n","n","e","c","t","i","o","n"," ","r","e","f","u","s","e",
      "d">>
COULD_NOT_FIND ==
    <<"C","o","u","l","d"," ","n","o","t"," ","f","i","n","d"," ","a"," ",
      "v","e","r","s","i","o","n">>

\* str(e) of the CalledProcessError of check_call: the command and its exit
\* status; check_call does not capture what the command wrote to stderr
StrCalledProcessError(name, url) ==
    <<"C","o","m","m","a","n","d"," ">>
        \o name \o <<" ">> \o url
        \o <<" ","e","x","i","t"," ","1">>

\* the code _install_nexus_artifact chooses from str(e)
InstallFailureCode(text) ==
    IF Contains(text, CONNECTION_REFUSED) \/ Contains(text, COULD_NOT_FIND)
    THEN 806
    ELSE 307

\* _install_nexus_artifact after _main_artifact_command
AfterMainCommand(st, name, url, extras, deps, out) ==
    IF Raised(st)
    THEN Raise(st, MurError(InstallFailureCode(StrCalledProcessError(name, url)),
                            st.err))
    ELSE ProcessArtifactMetadata(st, name, url, extras, deps, out)

\* _install_nexus_artifact
InstallNexusArtifact(st, name, pin, url, extras, deps, out) ==
    AfterMainCommand(MainArtifactCommand(st, name, pin, url, out),
                     name, url, extras, deps, out)

\* _private_artifact_command: pip install <spec> --index-url <index_url>
PrivateArtifactCommand(st, name, pin, url, out) ==
    CheckCall(Emit(st, Ev("pip_install", name, pin, "deps", url, <<>>)),
              name, VersionInstalled(pin), out.main, out.stderr)

\* the test of _handle_artifact_installation: '.murmur.nexus' in index_url
UsesManagedPath(url) == Contains(url, MANAGED_MARK)

\* _handle_artifact_installation
HandleArtifactInstallation(st, name, pin, url, extras, deps, out) ==
    IF UsesManagedPath(url)
    THEN InstallNexusArtifact(st, name, pin, url, extras, deps, out)
    ELSE PrivateArtifactCommand(st, name, pin, url, out)

\* the try block of _install_artifact
InstallArtifactBody(st, name, version, url, extras, deps, out) ==
    IF IsArtifactInstalled(st.env, name, version)
    THEN Emit(st, Ev("skip", name, version, "", <<>>, <<>>))
    ELSE HandleArtifactInstallation(st, name, ArtifactSpecPin(version),
                                    url, extras, deps, out)

\* the except clauses of _install_artifact: a MurError is re-raised, anything
\* else becomes MurError 300
InstallArtifactExcept(st) ==
    IF Raised(st) /\ st.err.kind # "MurError"
    THEN Raise(st, MurError(300, st.err))
    ELSE st

\* the return of _install_artifact
InstallArtifactEnd(st, name, version) ==
    Emit(st, Ev("install_end", name, version,
                IF Raised(st) THEN "error" ELSE "ok", <<>>, <<>>))

\* _install_artifact; the call is logged with the version installed at its start
InstallArtifact(st, name, version, url, extras, deps, out) ==
    InstallArtifactEnd(
        InstallArtifactExcept(
            InstallArtifactBody(
                Emit(st, Ev("install_begin", name, version,
                            InstalledVersion(st.env, name), <<>>, <<>>)),
                name, version, url, extras, deps, out)),
        name, version)

---------------------------------------------------------------------------
(* UninstallArtifactCommand *)

NoneUser == <<"<None>">>        \* username is None
UserU == <<"u">>

\* truth value of self.username
HasUsername(u) == u # NoneUser /\ u # <<>>

\* f'{self.username}'
FormatUser(u) == IF u = NoneUser THEN <<"N","o","n","e">> ELSE u

\* _remove_scope
RemoveScope(u, name) ==
    IF ~HasUsername(u) THEN name
    ELSE IF StartsWith(name, u \o <<"_">>) THEN Drop(name, Len(u) + 1)
    ELSE name

\* _normalize_artifact_name
NormalizeArtifactName(name) ==
    ReplaceChar(ReplaceChar(Lower(name), "-", "_"), ".", "_")

\* the installed distributions _find_installed_artifact matches
Matching(name, e) ==
    {d \in e : NormalizeArtifactName(d.name) = NormalizeArtifactName(name)}

\* _find_installed_artifact: the installed name that matches, if any
FindInstalledArtifact(name, e) ==
    IF Matching(name, e) # {}
    THEN [found |-> TRUE, name |-> (CHOOSE d \in Matching(name, e) : TRUE).name]
    ELSE [found |-> FALSE, name |-> <<>>]

\* the pip uninstall of _uninstall_artifact, logged in st
PipUninstallRan(st, pkg, unRes) ==
    IF unRes # "ok" THEN Raise(st, MurError(309, Exc("none")))
    ELSE [st EXCEPT !.env = PipUninstalled(@, pkg)]

\* _uninstall_artifact after _find_installed_artifact
UninstallFound(st, hit, unRes) ==
    IF ~hit.found THEN st
    ELSE PipUninstallRan(Emit(st, Ev("pip_uninstall", hit.name, "", unRes, <<>>, <<>>)),
                         hit.name, unRes)

\* _uninstall_artifact after _get_installed_artifacts
PipListRan(st, name, listRes, unRes) ==
    IF listRes # "ok" THEN Raise(st, MurError(309, Exc("none")))
    ELSE UninstallFound(st, FindInstalledArtifact(name, st.env), unRes)

\* _uninstall_artifact; listRes and unRes are the outcomes of `pip list` and
\* `pip uninstall`
UninstallArtifact(st, name, listRes, unRes) ==
    PipListRan(Emit(st, Ev("pip_list", name, "", listRes, <<>>, <<>>)),
               name, listRes, unRes)

IsImportOfNamePrefix(line, name) == StartsWith(Strip(line), FROM_DOT \o Pep8(name))

\* the test _remove_from_init_file applies to a line
IsImportOf(line, name) == StartsWith(Strip(line), FROM_DOT \o Pep8(name) \o <<".">>)

\* the lines _remove_from_init_file keeps
RECURSIVE KeepOthers(_, _)
KeepOthers(lines, name) ==
    IF lines = <<>> THEN <<>>
    ELSE (IF IsImportOf(Head(lines), name) THEN <<>> ELSE <<Head(lines)>>)
            \o KeepOthers(Tail(lines), name)

\* the content _remove_from_init_file writes back
KeptLines(text, name) == WriteLines(KeepOthers(ReadLines(text), name))

\* the body of _remove_from_init_file; every failure is wrapped in MurError 200
RemoveFromInitFileBody(st, name, dir) ==
    IF ~st.ns_found
    THEN Raise(st, MurError(200, MurError(211, Exc("none"))))
    ELSE IF ~st.fs[dir].exists
    THEN Raise(st, MurError(200, MurError(201, Exc("none"))))
    ELSE Emit([st EXCEPT !.fs[dir] = File(KeptLines(@.text, name))],
              Ev("clean_init", name, "", dir, <<>>, <<>>))

\* _remove_from_init_file(artifact_name, artifact_type)
RemoveFromInitFile(st, name, dir) ==
    RemoveFromInitFileBody(Emit(st, Ev("clean_begin", name, "", dir, <<>>, <<>>)),
                           name, dir)

\* the name _uninstall_single_artifact passes to the clean-up
UnscopedName(u, name) ==
    RemoveScope(u,
        ReplaceAll(ReplaceAll(ReplaceAll(name, FormatUser(u) \o <<"-">>, <<>>),
                              FormatUser(u) \o <<".">>, <<>>),
                   FormatUser(u) \o <<"_">>, <<>>))

TriesScopedNameWhateverTheName(u, name) == HasUsername(u)

\* the condition of the second, scope-prefixed attempt
TriesScopedName(u, name) ==
    /\ HasUsername(u)
    /\ ~(\/ StartsWith(name, u \o <<"_">>)
         \/ StartsWith(name, u \o <<"-">>)
         \/ StartsWith(name, u \o <<".">>))

\* the second attempt of _uninstall_single_artifact
ScopedAttempt(st, name, u, out) ==
    IF Raised(st) \/ ~TriesScopedName(u, name) THEN st
    ELSE UninstallArtifact(st, u \o <<"-">> \o name, out.list2, out.un2)

\* one clean-up call of _uninstall_single_artifact
CleanUp(st, unscoped, dir) ==
    IF Raised(st) THEN st ELSE RemoveFromInitFile(st, unscoped, dir)

\* the try block of _uninstall_single_artifact
UninstallSingleBody(st, name, u, out) ==
    CleanUp(CleanUp(ScopedAttempt(UninstallArtifact(st, name, out.list1, out.un1),
                                  name, u, out),
                    UnscopedName(u, name), "agents"),
            UnscopedName(u, name), "tools")

\* the except clause of _uninstall_single_artifact and of execute(): any
\* exception becomes MurError 309
Wrap309(st) == IF Raised(st) THEN Raise(st, MurError(309, st.err)) ELSE st

\* the return of _uninstall_single_artifact
UninstallEnd(st, name) ==
    Emit(st, Ev("uninstall_end", name, "",
                IF Raised(st) THEN "error" ELSE "ok", <<>>, <<>>))

\* whether pip lists a package under the name or under the scope-prefixed name
InstalledAs(e, name, u) ==
    \/ Matching(name, e) # {}
    \/ HasUsername(u) /\ Matching(u \o <<"-">> \o name, e) # {}

\* _uninstall_single_artifact; the call is logged with whether the name was
\* installed at its start
UninstallSingleArtifact(st, name, u, out) ==
    UninstallEnd(
        Wrap309(UninstallSingleBody(
                    Emit(st, Ev("uninstall_begin", name,
                                IF InstalledAs(st.env, name, u) THEN "installed"
                                ELSE "absent", "", <<>>, <<>>)),
                    name, u, out)),
        name)

---------------------------------------------------------------------------
(* Commands *)

\* the state a command works on
St == [env |-> env, fs |-> fs, ns_found |-> ns_found, log |-> log, err |-> NoErr]

ExitNone == [status |-> "none", err |-> NoErr]
ExitRunning == [status |-> "running", err |-> NoErr]
ExitOk == [status |-> "ok", err |-> NoErr]

\* handle_error of the command base class: the error is rendered and the
\* process ends with a non-zero status
HandleError(e) == [status |-> "error", err |-> e]

\* log_success / click.echo of the closing message
Echo(st, what) == Emit(st, Ev("echo", <<>>, "", what, <<>>, <<>>))

\* the closing message of a command, unless an exception is in flight
EchoUnlessRaised(st, what) == IF Raised(st) THEN st ELSE Echo(st, what)

CmdBegin(st, what, name) == Emit(st, Ev("cmd_begin", name, "", what, <<>>, <<>>))

\* the end of a command: what it leaves on disk, in the log and as exit status
Finish(st) ==
    /\ env' = st.env
    /\ fs' = st.fs
    /\ log' = st.log
    /\ exit' = IF Raised(st) THEN HandleError(st.err) ELSE ExitOk

PipResults == {"ok", "fail"}
MetaResults == {"ok", "conn", "timeout", "http"}
MaxDeps == 2

\* what the installer, the registry and the network answer during one
\* _install_artifact call; after the first failure nothing more is asked, and
\* the answers that are never asked for are left at "ok"
STDERR_OTHER == <<"E","R","R","O","R">>

\* what pip writes to stderr when it exits nonzero; the model varies it for
\* the installer invocation of the artifact itself
StderrTexts ==
    { STDERR_OTHER,
      STDERR_OTHER \o <<":", " ">> \o CONNECTION_REFUSED,
      STDERR_OTHER \o <<":", " ">> \o COULD_NOT_FIND }

InstallOutcomes ==
    {o \in [main : PipResults, meta : MetaResults, deps : [1..MaxDeps -> PipResults],
            stderr : StderrTexts] :
        /\ o.main # "fail" => o.stderr = STDERR_OTHER
        /\ o.main = "fail" => o.meta = "ok"
        /\ (o.main = "fail" \/ o.meta # "ok") => \A i \in 1..MaxDeps : o.deps[i] = "ok"
        /\ \A i \in 1..MaxDeps : o.deps[i] = "fail" =>
                \A j \in (i + 1)..MaxDeps : o.deps[j] = "ok"}

RegisterEvenIfRaised(st, name) ==
    Emit([st EXCEPT !.fs["artifacts"] = UpdateInitFile(@, name)],
         Ev("update_init", name, "", "", <<>>, <<>>))

\* the update of the aggregation file after a successful install call
RegisterUnlessRaised(st, name) ==
    IF Raised(st) THEN st
    ELSE Emit([st EXCEPT !.fs["artifacts"] = UpdateInitFile(@, name)],
              Ev("update_init", name, "", "", <<>>, <<>>))

InstallAndRegisterSwallow(st, name, version, out) ==
    RegisterUnlessRaised(
        Raise(InstallArtifact(st, name, version, index_url, extra_index_urls,
                              requires_dist, out), NoErr),
        name)

\* the body of the loop of _install_artifact_group for one artifact, and the
\* try block of _install_single_artifact: install, then update __init__.py
InstallAndRegister(st, name, version, out) ==
    RegisterUnlessRaised(
        InstallArtifact(st, name, version, index_url, extra_index_urls,
                        requires_dist, out),
        name)

CliNames == {NameT, NameTU}

\* _murmur_must_be_installed
MurmurMustBeInstalled(st) ==
    IF ~murmur_ok THEN Raise(st, MurError(308, Exc("none"))) ELSE st

\* _install_single_artifact after the check of the click command
InstallSingleArtifact(st, name, out) ==
    IF Raised(st) THEN st
    ELSE EchoUnlessRaised(InstallAndRegister(st, name, "latest", out), "installed")

\* mur install <artifact_name>
CmdInstallSingle ==
    /\ pc = "idle"
    /\ \E name \in CliNames, out \in InstallOutcomes :
         Finish(InstallSingleArtifact(
                    MurmurMustBeInstalled(CmdBegin(St, "install", name)), name, out))
    /\ ncmds' = ncmds + 1
    /\ UNCHANGED <<pc, stack, todo>>
    /\ UNCHANGED <<ns_found, murmur_ok, username, index_url, extra_index_urls,
                   requires_dist, manifest>>
    /\ UNCHANGED facVars
    /\ UNCHANGED apiVars

\* the artifacts execute() collects from the manifest
ManifestArtifacts == manifest.agents \o manifest.tools

\* mur install: the start of execute(), up to the call of _install_artifact_group
CmdInstallManifest ==
    /\ pc = "idle"
    /\ IF ~murmur_ok
       THEN /\ log' = CmdBegin(St, "install", <<>>).log
            /\ exit' = HandleError(MurError(308, Exc("none")))
            /\ UNCHANGED <<pc, stack>>
       ELSE IF ManifestArtifacts = <<>>
       THEN /\ log' = Echo(CmdBegin(St, "install", <<>>), "installed all").log
            /\ exit' = ExitOk
            /\ UNCHANGED <<pc, stack>>
       ELSE /\ log' = CmdBegin(St, "install", <<>>).log
            /\ exit' = ExitRunning
            /\ pc' = "install_group"
            /\ stack' = <<ManifestArtifacts>>
    /\ ncmds' = ncmds + 1
    /\ UNCHANGED todo
    /\ UNCHANGED diskVars
    /\ UNCHANGED facVars
    /\ UNCHANGED apiVars

\* the lists a walk still has to visit, given the tools of the artifact just
\* installed, its later siblings and the outer lists
Pending(tools, rest, outer) ==
    (IF tools # <<>> THEN <<tools>> ELSE <<>>)
        \o (IF rest # <<>> THEN <<rest>> ELSE <<>>)
        \o outer

StackAfterSiblingsFirst(stk) ==
    Pending(Tail(Head(stk)), Head(Head(stk)).tools, Tail(stk))

\* the artifact lists still to be walked after the first artifact of the top
\* list: its tools first, then its later siblings, then the outer lists
StackAfter(stk) ==
    Pending(Head(Head(stk)).tools, Tail(Head(stk)), Tail(stk))

\* the end of one iteration of the walk: an error leaves every enclosing loop
\* and reaches handle_error in execute(); the last iteration is followed by
\* the closing message
WalkOn(st, after) ==
    /\ Finish(IF after = <<>> THEN EchoUnlessRaised(st, "installed all") ELSE st)
    /\ stack' = IF Raised(st) THEN <<>> ELSE after
    /\ pc' = IF Raised(st) \/ after = <<>> THEN "idle" ELSE pc

\* one iteration of the loop of _install_artifact_group
InstallGroupStep ==
    /\ pc = "install_group"
    /\ stack # <<>>
    /\ \E out \in InstallOutcomes :
         WalkOn(InstallAndRegister(St, Head(Head(stack)).name,
                                   Head(Head(stack)).version, out),
                StackAfter(stack))
    /\ UNCHANGED <<todo, ncmds>>
    /\ UNCHANGED <<ns_found, murmur_ok, username, index_url, extra_index_urls,
                   requires_dist, manifest>>
    /\ UNCHANGED facVars
    /\ UNCHANGED apiVars

ListResults == {"ok", "fail"}

\* what pip answers during one _uninstall_single_artifact call; after the
\* first failure nothing more is asked
UninstallOutcomes ==
    {o \in [list1 : ListResults, un1 : PipResults, list2 : ListResults, un2 : PipResults] :
        /\ o.list1 = "fail" => o.un1 = "ok"
        /\ (o.list1 = "fail" \/ o.un1 = "fail") => o.list2 = "ok"
        /\ (o.list1 = "fail" \/ o.un1 = "fail" \/ o.list2 = "fail") => o.un2 = "ok"}

UninstallNames ==
    {NameT, <<"u","-","t">>, <<"u","_","t">>, <<"g">>, <<"g","u","-","t">>}

\* mur uninstall <name>: execute() with a name
CmdUninstallSingle ==
    /\ pc = "idle"
    /\ \E name \in UninstallNames, out \in UninstallOutcomes :
         Finish(EchoUnlessRaised(
                    Wrap309(UninstallSingleArtifact(CmdBegin(St, "uninstall", name),
                                                    name, username, out)),
                    "uninstalled"))
    /\ ncmds' = ncmds + 1
    /\ UNCHANGED <<pc, stack, todo>>
    /\ UNCHANGED <<ns_found, murmur_ok, username, index_url, extra_index_urls,
                   requires_dist, manifest>>
    /\ UNCHANGED facVars
    /\ UNCHANGED apiVars

\* the names of a list of manifest entries
RECURSIVE NamesOf(_)
NamesOf(arts) ==
    IF arts = <<>> THEN <<>> ELSE <<Head(arts).name>> \o NamesOf(Tail(arts))

\* the names _uninstall_from_manifest goes through: agents, then tools
ManifestNames == NamesOf(manifest.agents) \o NamesOf(manifest.tools)

\* mur uninstall: execute() without a name, up to the loops of
\* _uninstall_from_manifest
CmdUninstallManifest ==
    /\ pc = "idle"
    /\ IF ManifestNames = <<>>
       THEN /\ log' = Echo(CmdBegin(St, "uninstall", <<>>), "uninstalled all").log
            /\ exit' = ExitOk
            /\ UNCHANGED <<pc, todo>>
       ELSE /\ log' = CmdBegin(St, "uninstall", <<>>).log
            /\ exit' = ExitRunning
            /\ pc' = "uninstall_bulk"
            /\ todo' = ManifestNames
    /\ ncmds' = ncmds + 1
    /\ UNCHANGED stack
    /\ UNCHANGED diskVars
    /\ UNCHANGED facVars
    /\ UNCHANGED apiVars

\* the except clause around one item: the exception is logged as a warning
\* and dropped
WarnAndGoOn(st, name) ==
    IF Raised(st)
    THEN Raise(Emit(st, Ev("warning", name, "", "", <<>>, <<>>)), NoErr)
    ELSE st

UninstallManifestItemNoCatch(st, name, u, out) ==
    UninstallSingleArtifact(st, name, u, out)

\* the try/except around one agent or tool in _uninstall_from_manifest
UninstallManifestItem(st, name, u, out) ==
    WarnAndGoOn(UninstallSingleArtifact(st, name, u, out), name)

\* the end of one iteration of the loops of _uninstall_from_manifest; an
\* exception that leaves the loops is wrapped by the outer handler and again
\* by execute()
BulkOn(st, rest) ==
    /\ Finish(IF rest = <<>> THEN EchoUnlessRaised(st, "uninstalled all")
              ELSE Wrap309(Wrap309(st)))
    /\ todo' = IF Raised(st) THEN <<>> ELSE rest
    /\ pc' = IF Raised(st) \/ rest = <<>> THEN "idle" ELSE pc

\* one iteration of the loops of _uninstall_from_manifest
UninstallBulkStep ==
    /\ pc = "uninstall_bulk"
    /\ todo # <<>>
    /\ \E out \in UninstallOutcomes :
         BulkOn(UninstallManifestItem(St, Head(todo), username, out), Tail(todo))
    /\ UNCHANGED <<stack, ncmds>>
    /\ UNCHANGED <<ns_found, murmur_ok, username, index_url, extra_index_urls,
                   requires_dist, manifest>>
    /\ UNCHANGED facVars
    /\ UNCHANGED apiVars

---------------------------------------------------------------------------
(* ApiClient.post *)

CallIdle == [op |-> "idle"]
ResultIdle == [state |-> "idle"]

\* a call that returned a value, and a call that raised
Returned(v) == [state |-> "returned", value |-> v, err |-> NoErr]
RaisedWith(e) == [state |-> "raised", value |-> <<>>, err |-> e]

\* Optional[...] fields of ApiResponse
Unset == [set |-> FALSE, text |-> <<>>]
SetTo(t) == [set |-> TRUE, text |-> t]

EmptyDict == <<"{", "}">>

\* ApiResponse(status_code, data, raw_data, error)
ApiResponse(status, data, raw, error) ==
    [status_code |-> status, data |-> data, raw_data |-> raw, error |-> error]

\* An HTTP response: its status, what its body is (kind), the body text, and
\* whether a JSON object in it validates against the response model.
\*   kind "empty"        no content
\*   kind "text"         content that is not JSON
\*   kind "json_object"  a JSON object
\*   kind "json_other"   JSON that is not an object (a list, a string, ...)
HttpResponse(status, kind, text, valid) ==
    [status |-> status, kind |-> kind, text |-> text, valid |-> valid]

\* response.json() does not raise
JsonDecodes(r) == r.kind \in {"json_object", "json_other"}

\* error=f"Failed to parse response: {e}"
FAILED_TO_PARSE == <<"F","a","i","l","e","d"," ","t","o"," ","p","a","r","s","e">>

\* MurError 501 of the outer handler of post
ApiRequestFailed(cause) == RaisedWith(MurError(501, Exc(cause)))

ParsedResponseUnvalidated(r) ==
    IF ~JsonDecodes(r)
    THEN Returned(ApiResponse(r.status, Unset, EmptyDict, SetTo(FAILED_TO_PARSE)))
    ELSE IF r.kind # "json_object"
    THEN ApiRequestFailed("ValidationError")
    ELSE Returned(ApiResponse(r.status, SetTo(r.text), r.text, Unset))

\* post on status 200: the body is decoded and validated; a failure of either
\* is answered with an ApiResponse carrying the error, whose raw_data must be
\* a dict for the ApiResponse to be built
ParsedResponse(r) ==
    IF ~JsonDecodes(r)
    THEN Returned(ApiResponse(r.status, Unset, EmptyDict, SetTo(FAILED_TO_PARSE)))
    ELSE IF r.kind # "json_object"
    THEN ApiRequestFailed("ValidationError")
    ELSE IF r.valid
    THEN Returned(ApiResponse(r.status, SetTo(r.text), r.text, Unset))
    ELSE Returned(ApiResponse(r.status, Unset, r.text, SetTo(FAILED_TO_PARSE)))

\* post on any other status: raw_data=response.json() if response.content
\* else {}, error=response.text
ErrorResponse(r) ==
    IF r.kind = "empty"
    THEN Returned(ApiResponse(r.status, Unset, EmptyDict, SetTo(r.text)))
    ELSE IF ~JsonDecodes(r)
    THEN ApiRequestFailed("JSONDecodeError")
    ELSE IF r.kind # "json_object"
    THEN ApiRequestFailed("ValidationError")
    ELSE Returned(ApiResponse(r.status, Unset, r.text, SetTo(r.text)))

\* ApiClient.post, given whether requests.post got a response and which
PostResult(received, r) ==
    IF ~received THEN ApiRequestFailed("RequestException")
    ELSE IF r.status = 200 THEN ParsedResponse(r)
    ELSE ErrorResponse(r)

\* the responses the server gives in the model
OkStatus == {200}
ErrorStatuses == {400, 401, 403, 404, 409, 500, 502, 503}

BodyObject ==
    <<"{","\"","i","d","\"",":","1","}">>
BodyList == <<"[", "1", "]">>
BodyPlain == <<"o", "o", "p", "s">>

Responses ==
    {HttpResponse(s, "json_object", BodyObject, v) :
        s \in OkStatus \cup ErrorStatuses, v \in BOOLEAN}
    \cup {HttpResponse(s, b[1], b[2], FALSE) :
            s \in OkStatus \cup ErrorStatuses,
            b \in {<<"empty", <<>>>>, <<"text", BodyPlain>>, <<"json_other", BodyList>>}}

\* requests.post raised: there is no response
NoResponse == [status |-> 0, kind |-> "none", text |-> <<>>, valid |-> FALSE]

\* api_client.post(endpoint, payload, response_model, ...)
ApiPost ==
    /\ call.op = "idle"
    /\ \E r \in Responses \cup {NoResponse} :
         /\ call' = [op |-> "post", response |-> r]
         /\ result' = PostResult(r # NoResponse, r)
    /\ net' = <<"POST">>
    /\ UNCHANGED facVars
    /\ UNCHANGED diskVars
    /\ UNCHANGED runVars

---------------------------------------------------------------------------
(* PublicRegistryAdapter._handle_error_response *)

TOKEN_EXPIRED ==
    <<"T","o","k","e","n"," ","h","a","s"," ","e","x","p","i","r","e","d">>
BAD_CREDENTIALS ==
    <<"C","o","u","l","d"," ","n","o","t"," ","v","a","l","i","d","a","t",
      "e"," ","c","r","e","d","e","n","t","i","a","l","s">>
ALREADY_EXISTS ==
    <<"T","h","e"," ","p","a","c","k","a","g","e"," ","o","r"," ","f","i",
      "l","e"," ","a","l","r","e","a","d","y"," ","e","x","i","s","t","s",
      " ","i","n"," ","t","h","e"," ","f","e","e","d">>

\* STATUS_CODE_MAPPING.get(status_code, (800, 'Server error'))
StatusCodeMapping(status) ==
    CASE status = 400 -> 600
      [] status = 401 -> 502
      [] status = 403 -> 505
      [] status = 404 -> 600
      [] status = 500 -> 600
      [] status = 502 -> 806
      [] status = 503 -> 804
      [] OTHER -> 800

\* whether the status has an entry of its own in STATUS_CODE_MAPPING
InStatusTable(status) == status \in {400, 401, 403, 404, 500, 502, 503}

HandleErrorResponseTableFirst(status, message) ==
    IF InStatusTable(status) THEN StatusCodeMapping(status)
    ELSE IF Contains(message, TOKEN_EXPIRED) THEN 504
    ELSE IF Contains(message, BAD_CREDENTIALS) THEN 502
    ELSE IF Contains(message, ALREADY_EXISTS) THEN 302
    ELSE StatusCodeMapping(status)

\* _handle_error_response: the code of the MurError it raises
HandleErrorResponse(status, message) ==
    IF Contains(message, TOKEN_EXPIRED) THEN 504
    ELSE IF Contains(message, BAD_CREDENTIALS) THEN 502
    ELSE IF Contains(message, ALREADY_EXISTS) THEN 302
    ELSE StatusCodeMapping(status)

\* a JSON error body with the given detail
Detail(text) ==
    <<"{","\"","d","e","t","a","i","l","\"",":","\"">>
        \o text \o <<"\"", "}">>

ErrorMessages ==
    { <<>>,
      BodyPlain,
      Detail(BodyPlain),
      TOKEN_EXPIRED,
      Detail(BAD_CREDENTIALS),
      Detail(ALREADY_EXISTS),
      Detail(ALREADY_EXISTS \o <<";", " ">> \o TOKEN_EXPIRED) }

\* self._handle_error_response(status_code, error_message)
HandleErrorResponseCall ==
    /\ call.op = "idle"
    /\ \E status \in ErrorStatuses, message \in ErrorMessages :
         /\ call' = [op |-> "handle_error_response", status |-> status,
                     message |-> message]
         /\ result' = RaisedWith(MurError(HandleErrorResponse(status, message),
                                          Exc("none")))
    /\ net' = <<>>
    /\ UNCHANGED facVars
    /\ UNCHANGED diskVars
    /\ UNCHANGED runVars

---------------------------------------------------------------------------
(* upload_file of the two adapters *)

UploadFilePublicNoStatusCheck(exists, transfer) ==
    IF ~exists THEN RaisedWith(MurError(201, Exc("none")))
    ELSE IF transfer = "request_exception"
    THEN RaisedWith(MurError(200, Exc("RequestException")))
    ELSE Returned(<<>>)

\* PublicRegistryAdapter.upload_file; transfer is what requests.put does:
\* "ok" and "not_ok" are responses, "request_exception" is a raised
\* RequestException
UploadFilePublic(exists, transfer) ==
    IF ~exists THEN RaisedWith(MurError(201, Exc("none")))
    ELSE IF transfer = "not_ok" THEN RaisedWith(MurError(800, Exc("none")))
    ELSE IF transfer = "request_exception"
    THEN RaisedWith(MurError(200, Exc("RequestException")))
    ELSE Returned(<<>>)

\* PrivateRegistryAdapter.upload_file; transfer is what twine's upload does
\* with the Settings it is given: it returns after a successful upload
\* ("ok"), it returns as well when the repository answers that the file
\* already exists, since skip_existing=True ("exists_skipped"), and it raises
\* on any other response or failure ("error")
UploadFilePrivate(exists, transfer) ==
    IF ~exists THEN RaisedWith(MurError(201, Exc("none")))
    ELSE IF transfer = "error" THEN RaisedWith(MurError(200, Exc("Exception")))
    ELSE Returned(<<>>)

PublicTransfers == {"ok", "not_ok", "request_exception"}
PrivateTransfers == {"ok", "exists_skipped", "error"}

\* the attempts an upload_file call makes
UploadAttempts(exists, how) == IF exists THEN <<how>> ELSE <<>>

\* adapter.upload_file(file_path, signed_url) on the Public adapter
UploadFilePublicCall ==
    /\ call.op = "idle"
    /\ \E exists \in BOOLEAN, transfer \in PublicTransfers :
         /\ exists \/ transfer = "ok"
         /\ call' = [op |-> "upload_file", adapter |-> "public",
                     exists |-> exists, transfer |-> transfer]
         /\ result' = UploadFilePublic(exists, transfer)
         /\ net' = UploadAttempts(exists, "PUT")
    /\ UNCHANGED facVars
    /\ UNCHANGED diskVars
    /\ UNCHANGED runVars

\* adapter.upload_file(file_path, signed_url) on the Private adapter
UploadFilePrivateCall ==
    /\ call.op = "idle"
    /\ \E exists \in BOOLEAN, transfer \in PrivateTransfers :
         /\ exists \/ transfer = "ok"
         /\ call' = [op |-> "upload_file", adapter |-> "private",
                     exists |-> exists, transfer |-> transfer]
         /\ result' = UploadFilePrivate(exists, transfer)
         /\ net' = UploadAttempts(exists, "twine_upload")
    /\ UNCHANGED facVars
    /\ UNCHANGED diskVars
    /\ UNCHANGED runVars

---------------------------------------------------------------------------
(* get_package_indexes of the two adapters *)

\* str.split('\n')
RECURSIVE SplitNL(_)
SplitNL(text) ==
    IF \E i \in 1..Len(text) : text[i] = NL
    THEN LET k == CHOOSE i \in 1..Len(text) :
                     text[i] = NL /\ \A j \in 1..(i - 1) : text[j] # NL
         IN  <<SubSeq(text, 1, k - 1)>> \o SplitNL(Drop(text, k))
    ELSE <<text>>

\* [url.strip() for url in lines if url.strip()]
RECURSIVE StripNonBlank(_)
StripNonBlank(lines) ==
    IF lines = <<>> THEN <<>>
    ELSE (IF Strip(Head(lines)) # <<>> THEN <<Strip(Head(lines))>> ELSE <<>>)
            \o StripNonBlank(Tail(lines))

ExtraIndexesKeepBlank(c, section) ==
    IF c.section /\ c.name = section /\ c.has_extra
    THEN SplitNL(c.extra)
    ELSE <<>>

\* the extra indexes read from the extra-index-url option of a section
ExtraIndexes(c, section) ==
    IF c.section /\ c.name = section /\ c.has_extra
    THEN StripNonBlank(SplitNL(c.extra))
    ELSE <<>>

\* murmurrc_path = local_murmurrc if local_murmurrc.exists() else GLOBAL_MURMURRC_PATH
MurmurrcPath(files) == IF files["local"].exists THEN "local" ELSE "global"

\* MURMUR_SERVER_URL.rstrip('/')
BASE_URL ==
    <<"h","t","t","p","s",":","/","/","a","p","i",".","m","u","r","m","u","r",
      ".","n","e","x","u","s">>

\* config.get('global', 'index-url', fallback=DEFAULT_MURMUR_INDEX_URL)
PublicIndexUrl(c) ==
    IF c.section /\ c.name = "global" /\ c.has_key THEN c.index_url
    ELSE DEFAULT_MURMUR_INDEX_URL

\* PublicRegistryAdapter.get_package_indexes on the file it selected
PublicIndexesOf(c) ==
    IF ~c.parses
    THEN Returned(<<BASE_URL \o <<"/","s","i","m","p","l","e","/">> >>)
    ELSE Returned(<<PublicIndexUrl(c)>> \o ExtraIndexes(c, "global"))

\* PublicRegistryAdapter.get_package_indexes
PublicGetPackageIndexes(files) == PublicIndexesOf(files[MurmurrcPath(files)])

\* whether config.get('murmur-nexus', 'index-url', fallback=None) is truthy
PrivateIndexUrlSet(c) ==
    c.section /\ c.name = "murmur-nexus" /\ c.has_key /\ c.index_url # <<>>

PrivateIndexesOfWithDefault(c) ==
    IF ~c.parses THEN RaisedWith(MurError(807, Exc("none")))
    ELSE IF ~PrivateIndexUrlSet(c)
    THEN Returned(<<DEFAULT_MURMUR_INDEX_URL>> \o ExtraIndexes(c, "murmur-nexus"))
    ELSE Returned(<<c.index_url>> \o ExtraIndexes(c, "murmur-nexus"))

\* PrivateRegistryAdapter.get_package_indexes on the file it selected
PrivateIndexesOf(c) ==
    IF ~c.parses THEN RaisedWith(MurError(807, Exc("none")))
    ELSE IF ~PrivateIndexUrlSet(c) THEN RaisedWith(MurError(807, Exc("none")))
    ELSE Returned(<<c.index_url>> \o ExtraIndexes(c, "murmur-nexus"))

\* PrivateRegistryAdapter.get_package_indexes
PrivateGetPackageIndexes(files) == PrivateIndexesOf(files[MurmurrcPath(files)])

\* adapter.get_package_indexes() on the Public adapter
PublicGetPackageIndexesCall ==
    /\ call.op = "idle"
    /\ call' = [op |-> "get_package_indexes", adapter |-> "public"]
    /\ result' = PublicGetPackageIndexes(cfg_files)
    /\ net' = <<>>
    /\ UNCHANGED facVars
    /\ UNCHANGED diskVars
    /\ UNCHANGED runVars

\* adapter.get_package_indexes() on the Private adapter
PrivateGetPackageIndexesCall ==
    /\ call.op = "idle"
    /\ call' = [op |-> "get_package_indexes", adapter |-> "private"]
    /\ result' = PrivateGetPackageIndexes(cfg_files)
    /\ net' = <<>>
    /\ UNCHANGED facVars
    /\ UNCHANGED diskVars
    /\ UNCHANGED runVars

---------------------------------------------------------------------------
(* ArtifactPublishRequest.from_manifest *)

\* Optional[List[str]] fields of ArtifactPublishRequest
NoList == [set |-> FALSE, items |-> <<>>]
ListOf(items) == [set |-> TRUE, items |-> items]

\* manifest.to_dict(): whether it holds the keys 'type' and 'dependencies',
\* and what the value of 'dependencies' is: a list ("list") or None ("none")
ManifestDict(has_type, deps_kind, deps) ==
    [has_type |-> has_type, type |-> "tool", deps_kind |-> deps_kind,
     deps |-> deps]

\* 'dependencies' in manifest_dict and isinstance(manifest_dict['dependencies'], list)
DependenciesIsList(d) == d.deps_kind = "list"

\* the dependencies field of the request built by cls(**manifest_dict)
DependenciesField(d) == IF d.deps_kind = "list" THEN ListOf(d.deps) ELSE NoList

FromManifestNoRequiresDist(d) ==
    [type |-> d.type,
     requires_dist |-> NoList,
     dependencies |-> DependenciesField(d)]

\* ArtifactPublishRequest.from_manifest
FromManifest(d) ==
    [type |-> d.type,
     requires_dist |-> IF DependenciesIsList(d) THEN ListOf(d.deps) ELSE NoList,
     dependencies |-> DependenciesField(d)]

DependencyLists == {<<>>, <<DepD>>, <<DepD, DepE>>, <<DepE, DepD>>, <<DepD, DepD>>}

PublishManifests ==
    {ManifestDict(t, "list", ds) : t \in BOOLEAN, ds \in DependencyLists}
    \cup {ManifestDict(t, k, <<>>) : t \in BOOLEAN, k \in {"absent", "none"}}

\* ArtifactPublishRequest.from_manifest(manifest)
FromManifestCall ==
    /\ call.op = "idle"
    /\ \E d \in PublishManifests :
         /\ call' = [op |-> "from_manifest", manifest |-> d]
         /\ result' = Returned(FromManifest(d))
    /\ net' = <<>>
    /\ UNCHANGED facVars
    /\ UNCHANGED diskVars
    /\ UNCHANGED runVars

---------------------------------------------------------------------------
(* PublicRegistryAdapter.publish_artifact *)

\* what auth_manager.authenticate() does: it gives a token or raises a MurError
AuthToken(t) == [ok |-> TRUE, token |-> t, err |-> NoErr]
AuthFails(c) == [ok |-> FALSE, token |-> "", err |-> MurError(c, Exc("none"))]

AuthOutcomes == {AuthToken("t1"), AuthToken("t2"), AuthFails(502), AuthFails(504)}

\* _get_headers: {'Authorization': f'Bearer {access_token}'}
GetHeaders(auth) == [scheme |-> "Bearer", token |-> auth.token]
NoHeaders == [scheme |-> "none", token |-> ""]

UNKNOWN_ERROR == <<"U","n","k","n","o","w","n"," ","e","r","r","o","r">>

\* response.error or "Unknown error"
ErrorOrUnknown(error) ==
    IF error.set /\ error.text # <<>> THEN error.text ELSE UNKNOWN_ERROR

\* publish_artifact after api_client.post: a MurError of post is not a
\* RequestException and passes the except clause as it is
AfterPost(p) ==
    IF p.state = "raised" THEN p
    ELSE IF p.value.status_code # 200
    THEN RaisedWith(MurError(HandleErrorResponse(p.value.status_code,
                                                 ErrorOrUnknown(p.value.error)),
                             Exc("none")))
    ELSE Returned(p.value.raw_data)

PublishArtifactPostsUnauthenticated(auth, received, r) ==
    [result |-> AfterPost(PostResult(received, r)),
     net |-> <<"authenticate", "POST">>,
     sent |-> GetHeaders(auth)]

\* publish_artifact: the payload is built, the headers are fetched, the
\* request is posted; what it returns or raises, the calls it makes, and the
\* headers it sends
PublishArtifact(auth, received, r) ==
    IF ~auth.ok
    THEN [result |-> RaisedWith(auth.err), net |-> <<"authenticate">>,
          sent |-> NoHeaders]
    ELSE [result |-> AfterPost(PostResult(received, r)),
          net |-> <<"authenticate", "POST">>,
          sent |-> GetHeaders(auth)]

PublishResponses ==
    Responses
    \cup {HttpResponse(401, "json_object", Detail(TOKEN_EXPIRED), FALSE),
          NoResponse}

\* adapter.publish_artifact(manifest) on the Public adapter
PublishArtifactCall ==
    /\ call.op = "idle"
    /\ \E d \in PublishManifests, auth \in AuthOutcomes, r \in PublishResponses :
         /\ ~auth.ok => r = NoResponse
         /\ call' = [op |-> "publish_artifact", manifest |-> d, auth |-> auth,
                     response |-> r,
                     sent |-> PublishArtifact(auth, r # NoResponse, r).sent]
         /\ result' = PublishArtifact(auth, r # NoResponse, r).result
         /\ net' = PublishArtifact(auth, r # NoResponse, r).net
    /\ UNCHANGED facVars
    /\ UNCHANGED diskVars
    /\ UNCHANGED runVars

---------------------------------------------------------------------------
(* ConfigCommand.get_config *)

ConfigKeys == {"index-url", "extra-index-url", "username"}

\* key in config['murmur-nexus'] for the configuration _load_config returns:
\* the section is added in memory when the file does not hold it
KeyInLoadedConfig(c, key) ==
    /\ c.section
    /\ c.name = "murmur-nexus"
    /\ \/ key = "index-url" /\ c.has_key
       \/ key = "extra-index-url" /\ c.has_extra

\* config['murmur-nexus'][key]
LoadedValue(c, key) == IF key = "index-url" THEN c.index_url ELSE c.extra

\* the except clause of get_config
ConfigReadFailed == RaisedWith(MurError(402, Exc("ParsingError")))

\* get_config after the local file gave no value
GetConfigFromGlobal(g, key) ==
    IF ~g.exists THEN Returned(Unset)
    ELSE IF ~g.parses THEN ConfigReadFailed
    ELSE IF KeyInLoadedConfig(g, key) THEN Returned(SetTo(LoadedValue(g, key)))
    ELSE Returned(Unset)

GetConfigGlobalFirst(files, key) ==
    IF files["global"].exists /\ files["global"].parses
          /\ KeyInLoadedConfig(files["global"], key)
    THEN Returned(SetTo(LoadedValue(files["global"], key)))
    ELSE IF ~files["local"].exists THEN GetConfigFromGlobal(files["global"], key)
    ELSE IF ~files["local"].parses THEN ConfigReadFailed
    ELSE IF KeyInLoadedConfig(files["local"], key)
    THEN Returned(SetTo(LoadedValue(files["local"], key)))
    ELSE GetConfigFromGlobal(files["global"], key)

\* get_config(key): the value it returns (Unset is None) or the error it raises
GetConfig(files, key) ==
    IF ~files["local"].exists THEN GetConfigFromGlobal(files["global"], key)
    ELSE IF ~files["local"].parses THEN ConfigReadFailed
    ELSE IF KeyInLoadedConfig(files["local"], key)
    THEN Returned(SetTo(LoadedValue(files["local"], key)))
    ELSE GetConfigFromGlobal(files["global"], key)

\* mur config get <key>; neither file is written
GetConfigCall ==
    /\ call.op = "idle"
    /\ \E key \in ConfigKeys :
         /\ call' = [op |-> "get_config", key |-> key]
         /\ result' = GetConfig(cfg_files, key)
    /\ net' = <<>>
    /\ UNCHANGED facVars
    /\ UNCHANGED diskVars
    /\ UNCHANGED runVars

---------------------------------------------------------------------------
(* Initial states *)

Dist(n, v) == [name |-> n, version |-> v]

AggregationDirs == {"artifacts", "agents", "tools"}

\* murmur.yaml files
ManifestAgentTools ==
    [agents |-> <<Art(NameA, "latest", <<Art(NameT, "1.0", <<>>), Art(NameTU, "", <<>>)>>)>>,
     tools |-> <<>>]
ManifestSameTwice ==
    [agents |-> <<>>,
     tools |-> <<Art(NameT, "1.0", <<>>), Art(NameT, "1.0", <<>>)>>]
ManifestMixed ==
    [agents |-> <<Art(NameA, "1.0", <<Art(NameT, "LATEST", <<>>)>>)>>,
     tools |-> <<Art(NameTU, "2.0", <<>>)>>]
ManifestEmpty == [agents |-> <<>>, tools |-> <<>>]

Manifests == {ManifestAgentTools, ManifestSameTwice, ManifestMixed, ManifestEmpty}

FacIdleVars ==
    /\ cfg_files = [p \in CfgPaths |-> CfgAbsent]
    /\ fac_in = [path |-> "global", verbose |-> FALSE]
    /\ fac_out = FacIdle

RunIdleVars ==
    /\ pc = "idle"
    /\ stack = <<>>
    /\ todo = <<>>
    /\ log = <<>>
    /\ exit = ExitNone
    /\ ncmds = 0

ApiIdleVars ==
    /\ call = CallIdle
    /\ result = ResultIdle
    /\ net = <<>>

DiskIdleVars ==
    /\ env = {}
    /\ fs = [d \in AggregationDirs |-> FileAbsent]
    /\ ns_found = TRUE
    /\ murmur_ok = TRUE
    /\ username = NoneUser
    /\ index_url = DEFAULT_MURMUR_INDEX_URL
    /\ extra_index_urls = <<>>
    /\ requires_dist = <<>>
    /\ manifest = ManifestEmpty

---------------------------------------------------------------------------
(* Specification of the adapter factory *)

InitFactory ==
    /\ cfg_files \in [CfgPaths -> CfgContents]
    /\ fac_in \in [path : CfgPaths, verbose : BOOLEAN]
    /\ fac_out = FacIdle
    /\ DiskIdleVars
    /\ RunIdleVars
    /\ ApiIdleVars

NextFactory == GetRegistryAdapter

SpecFactory == InitFactory /\ [][NextFactory]_vars

---------------------------------------------------------------------------
(* Specification of the install command *)

InstallEnvs ==
    { {}, {Dist(NameT, "1.0")}, {Dist(NameT, "2.0"), Dist(NameA, "1.0")} }

ArtifactsFiles ==
    { FileAbsent,
      File(<<>>),
      File(ImportLine(NameT) \o <<NL>>),
      File(ImportLine(NameA) \o <<NL>> \o ImportLine(NameT)),
      File(<<"#", " ">> \o ImportLine(NameT) \o <<NL>>) }

InstallIndexUrls ==
    {DEFAULT_MURMUR_INDEX_URL, UrlPypi, UrlApex, UrlPathNexus, UrlEvilHost}

InstallExtras == {<<>>, <<UrlPypi>>, <<UrlPypi, UrlApex>>, <<UrlPypi, UrlApex, UrlPathNexus>>}

DeclaredDeps == {<<>>, <<DepD, DepE>>}

InitInstall ==
    /\ env \in InstallEnvs
    /\ \E f \in ArtifactsFiles :
         fs = [d \in AggregationDirs |-> IF d = "artifacts" THEN f ELSE FileAbsent]
    /\ ns_found = TRUE
    /\ murmur_ok \in BOOLEAN
    /\ username = NoneUser
    /\ index_url \in InstallIndexUrls
    /\ extra_index_urls \in InstallExtras
    /\ requires_dist \in DeclaredDeps
    /\ manifest \in Manifests
    /\ FacIdleVars
    /\ RunIdleVars
    /\ ApiIdleVars

NextInstall ==
    \/ ncmds < MaxCmds /\ CmdInstallSingle
    \/ ncmds < MaxCmds /\ CmdInstallManifest
    \/ InstallGroupStep

SpecInstall == InitInstall /\ [][NextInstall]_vars

---------------------------------------------------------------------------
(* Specification of the uninstall command *)

UninstallEnvs ==
    { {}, {Dist(NameT, "1.0")}, {Dist(<<"u","-","t">>, "1.0"), Dist(NameA, "1.0")} }

TypeFiles ==
    { FileAbsent,
      File(<<>>),
      File(ImportLine(NameT) \o <<NL>> \o ImportLine(NameA) \o <<NL>>),
      File(ImportLine(NameTU) \o <<NL>> \o <<" ", " ">> \o ImportLine(NameT) \o <<NL>>
              \o <<"#", " ", "t", NL>> \o ImportLine(NameT)) }

UninstallUsers == {NoneUser, UserU}

InitUninstall ==
    /\ env \in UninstallEnvs
    /\ \E fa \in TypeFiles, ft \in TypeFiles :
         fs = [d \in AggregationDirs |->
                 IF d = "agents" THEN fa ELSE IF d = "tools" THEN ft ELSE FileAbsent]
    /\ ns_found \in BOOLEAN
    /\ murmur_ok = TRUE
    /\ username \in UninstallUsers
    /\ index_url = DEFAULT_MURMUR_INDEX_URL
    /\ extra_index_urls = <<>>
    /\ requires_dist = <<>>
    /\ manifest \in Manifests
    /\ FacIdleVars
    /\ RunIdleVars
    /\ ApiIdleVars

NextUninstall ==
    \/ ncmds < MaxCmds /\ CmdUninstallSingle
    \/ ncmds < MaxCmds /\ CmdUninstallManifest
    \/ UninstallBulkStep

SpecUninstall == InitUninstall /\ [][NextUninstall]_vars

---------------------------------------------------------------------------
(* Specification of installs and uninstalls run one after the other *)

MaxTripCmds == 2    \* commands run one after the other in one behaviour

RoundTripEnvs == { {}, {Dist(NameT, "1.0")} }

RoundTripTypeFiles == { File(<<>>), File(ImportLine(NameT) \o <<NL>>) }

InitRoundTrip ==
    /\ env \in RoundTripEnvs
    /\ \E f \in RoundTripTypeFiles :
         fs = [d \in AggregationDirs |-> IF d = "artifacts" THEN FileAbsent ELSE f]
    /\ ns_found = TRUE
    /\ murmur_ok = TRUE
    /\ username \in UninstallUsers
    /\ index_url \in {DEFAULT_MURMUR_INDEX_URL, UrlPypi}
    /\ extra_index_urls = <<UrlPypi>>
    /\ requires_dist = <<>>
    /\ manifest = ManifestEmpty
    /\ FacIdleVars
    /\ RunIdleVars
    /\ ApiIdleVars

NextRoundTrip ==
    \/ ncmds < MaxTripCmds /\ CmdInstallSingle
    \/ ncmds < MaxTripCmds /\ CmdUninstallSingle

SpecRoundTrip == InitRoundTrip /\ [][NextRoundTrip]_vars

---------------------------------------------------------------------------
(* Specification of the API client and the registry adapters *)

\* the lines of the extra-index-url values of the model, as written in the file
ExtraLineLists ==
    { <<<<>>, UrlPypi, <<>>, UrlApex>>,
      <<UrlApex, UrlPypi \o <<" ">>, <<" ">>, UrlApex>> }

\* '\n'.join(lines): the value configparser gives for a multi-line option
RECURSIVE JoinNL(_)
JoinNL(lines) ==
    IF lines = <<>> THEN <<>>
    ELSE IF Len(lines) = 1 THEN Head(lines)
    ELSE Head(lines) \o <<NL>> \o JoinNL(Tail(lines))

AdapterSections == {"murmur-nexus", "global"}

AdapterUrls == {DEFAULT_MURMUR_INDEX_URL, UrlPypi, UrlEmpty}

AdapterCfgContents ==
    {CfgAbsent, CfgMalformed, CfgNoSection}
    \cup {Cfg(TRUE, TRUE, TRUE, n, FALSE, <<>>, FALSE, <<>>) : n \in AdapterSections}
    \cup {Cfg(TRUE, TRUE, TRUE, n, TRUE, u, FALSE, <<>>) :
            n \in AdapterSections, u \in AdapterUrls}
    \cup {Cfg(TRUE, TRUE, TRUE, n, FALSE, <<>>, TRUE, JoinNL(ls)) :
            n \in AdapterSections, ls \in ExtraLineLists}
    \cup {Cfg(TRUE, TRUE, TRUE, n, TRUE, UrlPypi, TRUE, JoinNL(ls)) :
            n \in AdapterSections, ls \in ExtraLineLists}

InitAdapters ==
    /\ cfg_files \in [CfgPaths -> AdapterCfgContents]
    /\ fac_in = [path |-> "global", verbose |-> FALSE]
    /\ fac_out = FacIdle
    /\ DiskIdleVars
    /\ RunIdleVars
    /\ ApiIdleVars

NextAdapters ==
    \/ ApiPost
    \/ HandleErrorResponseCall
    \/ UploadFilePublicCall
    \/ UploadFilePrivateCall
    \/ PublicGetPackageIndexesCall
    \/ PrivateGetPackageIndexesCall

SpecAdapters == InitAdapters /\ [][NextAdapters]_vars

---------------------------------------------------------------------------
(* Specification of publishing *)

InitPublish ==
    /\ cfg_files = [p \in CfgPaths |-> CfgAbsent]
    /\ fac_in = [path |-> "global", verbose |-> FALSE]
    /\ fac_out = FacIdle
    /\ DiskIdleVars
    /\ RunIdleVars
    /\ ApiIdleVars

NextPublish ==
    \/ FromManifestCall
    \/ PublishArtifactCall

SpecPublish == InitPublish /\ [][NextPublish]_vars

---------------------------------------------------------------------------
(* Specification of the config command *)

NextConfig == GetConfigCall

SpecConfig == InitAdapters /\ [][NextConfig]_vars

---------------------------------------------------------------------------
(* Reading the event log *)

Max(S) == CHOOSE x \in S : \A y \in S : y <= x
Min(S) == CHOOSE x \in S : \A y \in S : x <= y

Idx(op) == {i \in 1..Len(log) : log[i].op = op}

\* where the events of the command started last begin
RunStart == IF Idx("cmd_begin") = {} THEN 1 ELSE Max(Idx("cmd_begin"))

InRun(i) == i \in RunStart..Len(log)

\* the command started last
LastCmdIs(what, bulk) ==
    /\ Idx("cmd_begin") # {}
    /\ log[RunStart].aux = what
    /\ (log[RunStart].name = <<>>) = bulk

CommandEnded == pc = "idle" /\ exit.status \in {"ok", "error"}

\* the install_end that closes the _install_artifact call begun at i
InstallEndOf(i) == Min({j \in Idx("install_end") : j > i})

\* the uninstall_end that closes the _uninstall_single_artifact call begun at i
UninstallEndOf(i) == Min({j \in Idx("uninstall_end") : j > i})

\* the events between two positions
Between(i, j) == {k \in 1..Len(log) : i < k /\ k < j}

---------------------------------------------------------------------------
(* C1: adapter selection *)

\* C1: once get_registry_adapter has run on a configuration file: index-url
\* equal to the default public URL gives the Public adapter, any other
\* non-empty value gives the Private adapter, and a missing section or a
\* missing index-url key raises MurError and gives no adapter.
C1_AdapterSelection ==
    fac_out.state # "idle" =>
        LET c == cfg_files[fac_in.path]
            hasValue == c.parses /\ c.section /\ c.has_key
        IN  /\ (hasValue /\ c.index_url = DEFAULT_MURMUR_INDEX_URL) =>
                    (fac_out.state = "returned" /\ fac_out.adapter = "public")
            /\ (hasValue /\ c.index_url # DEFAULT_MURMUR_INDEX_URL /\ c.index_url # <<>>) =>
                    (fac_out.state = "returned" /\ fac_out.adapter = "private")
            /\ (~c.section \/ ~c.has_key) =>
                    (fac_out.state = "raised" /\ fac_out.adapter = "none"
                        /\ fac_out.code = 213)

\* a private index was configured and the Private adapter came back
C1_Witness ==
    /\ fac_out.state = "returned"
    /\ fac_out.adapter = "private"
    /\ cfg_files[fac_in.path].index_url = UrlPypi

---------------------------------------------------------------------------
(* C2: install idempotence *)

\* the requested version is satisfied by what was installed when the call began
Satisfied(e) ==
    /\ e.aux # NotFound
    /\ (e.aux = e.ver \/ e.ver = "latest" \/ e.ver = "")

\* the installer invocations for artifact n among the events of K
PipCallsFor(n, K) == {k \in K : log[k].op = "pip_install" /\ log[k].name = n}

\* C2: an _install_artifact call for an artifact that is already installed at
\* the requested version, or at any version when 'latest' or no version is
\* requested, invokes the installer zero times and returns without error; and
\* of two _install_artifact calls in a row for the same artifact and version,
\* the first returning without error, the second invokes the installer zero
\* times, so that the installer runs at most once for the artifact.
C2_InstallIdempotent ==
    \A i \in Idx("install_begin") :
        LET j == InstallEndOf(i)
        IN  /\ Satisfied(log[i]) =>
                /\ \A k \in Between(i, j) : log[k].op # "pip_install"
                /\ log[j].aux = "ok"
            /\ \A i2 \in Idx("install_begin") :
                 ( /\ i2 > j
                   /\ \A k \in Between(j, i2) : log[k].op # "install_begin"
                   /\ log[i2].name = log[i].name
                   /\ log[i2].ver = log[i].ver
                   /\ log[j].aux = "ok" )
                 => /\ PipCallsFor(log[i].name, Between(i2, InstallEndOf(i2))) = {}
                    /\ Cardinality(PipCallsFor(log[i].name, Between(i, InstallEndOf(i2)))) <= 1

\* the same tool was installed twice in a row: the first call ran the
\* installer, the second was skipped
C2_Witness ==
    \E i \in Idx("install_begin"), i2 \in Idx("install_begin") :
        /\ i < i2
        /\ log[i].name = log[i2].name
        /\ log[i].ver = log[i2].ver
        /\ PipCallsFor(log[i].name, Between(i, InstallEndOf(i))) # {}
        /\ log[InstallEndOf(i)].aux = "ok"
        /\ Satisfied(log[i2])
        /\ log[i2 + 1].op = "skip"

---------------------------------------------------------------------------
(* C3, C4: the walk of _install_artifact_group *)

\* the artifacts of a manifest tree, parents before their tools, in manifest order
RECURSIVE Preorder(_)
Preorder(arts) ==
    IF arts = <<>> THEN <<>>
    ELSE <<Head(arts)>> \o Preorder(Head(arts).tools) \o Preorder(Tail(arts))

\* the names of the _install_artifact calls of the command started last
RECURSIVE BegunFrom(_)
BegunFrom(i) ==
    IF i > Len(log) THEN <<>>
    ELSE (IF log[i].op = "install_begin" THEN <<log[i].name>> ELSE <<>>)
            \o BegunFrom(i + 1)

IsPrefix(a, b) == Len(a) <= Len(b) /\ SubSeq(b, 1, Len(a)) = a

RECURSIVE ExpectedSteps(_)
ExpectedSteps(arts) ==
    IF arts = <<>> THEN <<>>
    ELSE << <<"install_begin", Head(arts).name>>,
            <<"install_end", Head(arts).name>>,
            <<"update_init", Head(arts).name>> >> \o ExpectedSteps(Tail(arts))

WalkOps == {"install_begin", "install_end", "update_init"}

RECURSIVE StepsFrom(_)
StepsFrom(i) ==
    IF i > Len(log) THEN <<>>
    ELSE (IF log[i].op \in WalkOps THEN << <<log[i].op, log[i].name>> >> ELSE <<>>)
            \o StepsFrom(i + 1)

\* C4: in a manifest-driven install the steps done so far are an initial part
\* of the depth-first walk in manifest order (agents, each followed by its
\* tools, then the top-level tools); every installer invocation and metadata
\* request lies inside the install call of one artifact; and an install call
\* that failed is followed by no step, so that a nested tool is begun only
\* after its parent's install call returned without error.
C4_DepthFirstOrder ==
    LastCmdIs("install", TRUE) =>
        /\ IsPrefix(StepsFrom(RunStart), ExpectedSteps(Preorder(ManifestArtifacts)))
        /\ \A k \in RunStart..Len(log) :
              log[k].op \in {"pip_install", "metadata_get", "skip"} =>
                 LET before == {i \in RunStart..(k - 1) : log[i].op \in WalkOps}
                 IN  before # {} /\ log[Max(before)].op = "install_begin"
        /\ \A j \in Idx("install_end") :
              (InRun(j) /\ log[j].aux = "error") => j = Len(log)

\* agent -> [toolA, toolB] was walked to the end: both tools were begun after
\* the agent's import line was written, toolB after toolA's
C4_Witness ==
    /\ manifest = ManifestAgentTools
    /\ LastCmdIs("install", TRUE)
    /\ exit.status = "ok"
    /\ BegunFrom(RunStart) = <<NameA, NameT, NameTU>>
    /\ \E k \in Idx("pip_install") : InRun(k) /\ log[k].name = NameTU

---------------------------------------------------------------------------
(* C5: the aggregation file written by install *)

\* a line without its line ending
WithoutEnding(line) ==
    IF EndsWith(line, <<NL>>) THEN SubSeq(line, 1, Len(line) - 1) ELSE line

\* how often a line occurs as a line of a file
Occurrences(f, line) ==
    IF ~f.exists THEN 0
    ELSE Cardinality({i \in 1..Len(ReadLines(f.text)) :
                         WithoutEnding(ReadLines(f.text)[i]) = line})

\* C5: after the _update_init_file calls made so far, the aggregation file
\* exists and the import line of every artifact passed to _update_init_file
\* occurs exactly once as a line of it.
C5_ImportLineExactlyOnce ==
    \A k \in Idx("update_init") :
        /\ fs["artifacts"].exists
        /\ Occurrences(fs["artifacts"], ImportLine(log[k].name)) = 1

---------------------------------------------------------------------------
(* C6: uninstalling a name that is not installed *)

\* the events of the command started last
Run(op) == {k \in Idx(op) : InRun(k)}

\* C6: a single-artifact uninstall of a name that matches no installed
\* package, pip answering its list requests, invokes no pip uninstall and ends
\* with success, whatever the aggregation files are.
C6_NeverInstalledIsNoOp ==
    (LastCmdIs("uninstall", FALSE) /\ CommandEnded) =>
        \A i \in Run("uninstall_begin") :
            (log[i].ver = "absent" /\ \A k \in Run("pip_list") : log[k].aux = "ok")
            => /\ Run("pip_uninstall") = {}
               /\ exit.status = "ok"

---------------------------------------------------------------------------
(* C7: bulk uninstall *)

\* the names of the _uninstall_single_artifact calls from position i on
RECURSIVE UninstallsBegunFrom(_)
UninstallsBegunFrom(i) ==
    IF i > Len(log) THEN <<>>
    ELSE (IF log[i].op = "uninstall_begin" THEN <<log[i].name>> ELSE <<>>)
            \o UninstallsBegunFrom(i + 1)

\* C7: in a bulk uninstall the artifacts attempted so far followed by those
\* still to come are the top-level agents and then the top-level tools of the
\* manifest, in manifest order, whichever of them failed; a failed attempt is
\* followed by a warning and not by the end of the command; and the command
\* ends without error, all entries attempted once, with the completed message.
C7_BulkIsolation ==
    LastCmdIs("uninstall", TRUE) =>
        /\ UninstallsBegunFrom(RunStart) \o todo
              = NamesOf(manifest.agents) \o NamesOf(manifest.tools)
        /\ \A j \in Run("uninstall_end") :
              log[j].aux = "error" => (j < Len(log) /\ log[j + 1].op = "warning")
        /\ CommandEnded =>
              /\ todo = <<>>
              /\ exit.status = "ok"
              /\ log[Len(log)].op = "echo"
              /\ log[Len(log)].aux = "uninstalled all"

\* a bulk uninstall ended with the completed message although the attempt for
\* its first artifact failed, and a later artifact was attempted after the
\* warning
C7_Witness ==
    /\ LastCmdIs("uninstall", TRUE)
    /\ CommandEnded
    /\ exit.status = "ok"
    /\ \E w \in Run("warning"), i \in Run("uninstall_begin") :
          /\ w < i
          /\ log[w - 1].op = "uninstall_end"
          /\ log[w - 1].aux = "error"

---------------------------------------------------------------------------
(* C8: install followed by uninstall *)

\* the command begun at i is a single-artifact command `what` for `name`
IsCmd(i, what, name) ==
    /\ log[i].op = "cmd_begin"
    /\ log[i].aux = what
    /\ log[i].name = name

\* C8: after `mur install X` that succeeded, directly followed by
\* `mur uninstall X` that succeeded, the aggregation file install writes to
\* contains no import line for X.
C8_RoundTripCleansImport ==
    \A i \in Idx("cmd_begin"), j \in Idx("cmd_begin") :
        ( /\ i < j
          /\ j = RunStart
          /\ \A k \in Between(i, j) : log[k].op # "cmd_begin"
          /\ \E n \in CliNames : IsCmd(i, "install", n) /\ IsCmd(j, "uninstall", n)
          /\ log[j - 1].op = "echo"
          /\ log[j - 1].aux = "installed"
          /\ CommandEnded
          /\ exit.status = "ok" )
        => Occurrences(fs["artifacts"], ImportLine(log[i].name)) = 0

---------------------------------------------------------------------------
(* C9: the attempts of _uninstall_single_artifact *)

\* the removal attempts (_uninstall_artifact calls) between two positions
Attempts(i, j) == {k \in Between(i, j) : log[k].op = "pip_list"}

\* the attempt at k raised: pip list failed, or the pip uninstall it led to did
AttemptFailed(k) ==
    \/ log[k].aux # "ok"
    \/ log[k + 1].op = "pip_uninstall" /\ log[k + 1].aux # "ok"

\* the clean-up calls (_remove_from_init_file) between two positions
CleanUps(i, j) == {k \in Between(i, j) : log[k].op = "clean_begin"}

\* a username scope is configured and the name does not carry it yet
ScopeApplies(name) ==
    /\ username # NoneUser
    /\ username # <<>>
    /\ \A sep \in {"_", "-", "."} : ~StartsWith(name, username \o <<sep>>)

ScopedName(name) == username \o <<"-">> \o name

---------------------------------------------------------------------------
(* C10: routing by the primary index URL *)

SchemeSep == <<":", "/", "/">>

\* the part of a URL after its scheme
RECURSIVE AfterScheme(_)
AfterScheme(url) ==
    IF Len(url) < Len(SchemeSep) THEN <<>>
    ELSE IF StartsWith(url, SchemeSep) THEN Drop(url, Len(SchemeSep))
    ELSE AfterScheme(Tail(url))

\* a text up to its first "/"
RECURSIVE UpToSlash(_)
UpToSlash(s) ==
    IF s = <<>> \/ Head(s) = "/" THEN <<>> ELSE <<Head(s)>> \o UpToSlash(Tail(s))

\* the host of a URL
HostOf(url) == UpToSlash(AfterScheme(url))

ManagedDomain == <<"m","u","r","m","u","r",".","n","e","x","u","s">>

\* the host is the managed registry domain or one of its sub-domains
HostInManagedDomain(url) ==
    \/ HostOf(url) = ManagedDomain
    \/ EndsWith(HostOf(url), <<".">> \o ManagedDomain)

\* C10: an _install_artifact call that has to install takes the managed path
\* (installer without dependency resolution first, then, that succeeding, the
\* metadata request) if the host of the primary index URL belongs to the
\* managed registry domain, and otherwise is exactly one installer invocation
\* with dependency resolution and no metadata request.
C10_RoutingByHost ==
    \A i \in Idx("install_begin") :
        log[i + 1].op # "skip" =>
            LET j == InstallEndOf(i)
                pips == {k \in Between(i, j) : log[k].op = "pip_install"}
                metas == {k \in Between(i, j) : log[k].op = "metadata_get"}
            IN  IF HostInManagedDomain(index_url)
                THEN /\ log[i + 1].op = "pip_install"
                     /\ log[i + 1].aux = "no-deps"
                     /\ \A k \in pips : log[k].aux \in {"no-deps", "dep"}
                     /\ metas # {} <=> log[i + 2].op = "metadata_get"
                     /\ metas = {} => log[j].aux = "error"
                ELSE /\ pips = {i + 1}
                     /\ log[i + 1].aux = "deps"
                     /\ metas = {}

---------------------------------------------------------------------------
(* C11: typed errors on their way to the top-level handler *)

\* C11: the error a command ends with is never a MurError that carries
\* another MurError as its original cause: a MurError raised inside an
\* operation reaches the top-level handler as it was raised.
C11_TypedErrorsNotRewrapped ==
    (exit.status = "error" /\ exit.err.kind = "MurError") =>
        exit.err.cause # "MurError"

---------------------------------------------------------------------------
(* C12, C13: the error kinds of a failed publish *)

\* the specific codes of the substrings an error text contains
OverrideCodes(message) ==
    (IF Contains(message, TOKEN_EXPIRED) THEN {504} ELSE {})
    \cup (IF Contains(message, BAD_CREDENTIALS) THEN {502} ELSE {})
    \cup (IF Contains(message, ALREADY_EXISTS) THEN {302} ELSE {})

HandledError == call.op = "handle_error_response" /\ result.state = "raised"

\* C12: when the error text of a non-200 publish response contains the
\* token-expired, bad-credentials or already-exists substring, the error
\* raised has the specific code of a substring the text contains (504, 502,
\* 302), whatever the HTTP status, so that the status-code table decides only
\* when no substring matches; a text whose match is 'already exists' gets
\* the duplicate-version code 302 and never a code of the table.
C12_SubstringOverrides ==
    call.op = "handle_error_response" =>
        /\ result.state = "raised"
        /\ result.err.kind = "MurError"
        /\ OverrideCodes(call.message) # {} =>
              result.err.code \in OverrideCodes(call.message)
        /\ OverrideCodes(call.message) = {302} => result.err.code = 302

\* a 409 response saying that the package already exists was given the
\* duplicate-version code
C12_Witness ==
    /\ HandledError
    /\ call.status = 409
    /\ call.message = Detail(ALREADY_EXISTS)
    /\ result.err.code = 302

\* the code the claim gives for a status when no substring matches
ClaimedStatusCode(status) ==
    CASE status = 400 -> 600
      [] status = 401 -> 502
      [] status = 403 -> 505
      [] status = 502 -> 806
      [] status = 503 -> 804
      [] OTHER -> 600

\* C13: when no substring matches, the raised error kind follows the status
\* table: 400 bad request (600), 401 unauthorized (502), 403 permission
\* denied (505), 404 and 500 generic server error (600), 502 bad gateway
\* (806), 503 service unavailable (804), and any other status the same
\* generic server error (600) as 404 and 500.
C13_StatusTable ==
    (HandledError /\ OverrideCodes(call.message) = {}) =>
        result.err.code = ClaimedStatusCode(call.status)

---------------------------------------------------------------------------
(* C14, C15: what ApiClient.post gives back *)

PostReceived == call.op = "post" /\ call.response # NoResponse

\* the body of a 200 response decodes to an object the response model accepts
WellFormed(r) == r.kind = "json_object" /\ r.valid

\* C14: for every response received, whatever its status and body (JSON,
\* plain text or empty), post returns an ApiResponse and does not raise; for a
\* status other than 200 its error is the response text; for a 200 whose body
\* does not decode or validate it has an error and no data.
C14_PostRaisesOnlyOnNetworkFailure ==
    PostReceived =>
        /\ result.state = "returned"
        /\ call.response.status # 200 =>
              (result.value.error.set /\ result.value.error.text = call.response.text)
        /\ (call.response.status = 200 /\ ~WellFormed(call.response)) =>
              (result.value.error.set /\ ~result.value.data.set)

\* C15: every ApiResponse that post returns has data if and only if the
\* status is 200 and the body was well-formed for the response model, and has
\* an error if and only if it has no data.
C15_Envelope ==
    (call.op = "post" /\ result.state = "returned") =>
        /\ result.value.data.set <=>
              (call.response.status = 200 /\ WellFormed(call.response))
        /\ result.value.error.set <=> ~result.value.data.set

\* a 200 response whose JSON object did not validate came back with an error
\* and without data
C15_Witness ==
    /\ call.op = "post"
    /\ result.state = "returned"
    /\ call.response.status = 200
    /\ call.response.kind = "json_object"
    /\ ~call.response.valid
    /\ result.value.error.set
    /\ ~result.value.data.set

---------------------------------------------------------------------------
(* C16: upload_file *)

Uploaded == call.op = "upload_file"

\* the call raised a MurError with one of the given codes
RaisedCode(codes) ==
    /\ result.state = "raised"
    /\ result.err.kind = "MurError"
    /\ result.err.code \in codes

\* C16 as stated: if the local path does not exist the call fails with
\* MurError 201 and makes no network or delegated-upload attempt; if it exists
\* and the transfer gets a non-success response or fails, the call fails with
\* an upload error and does not return normally.
C16_UploadFailsOnEveryNonSuccess ==
    Uploaded =>
        /\ ~call.exists => (RaisedCode({201}) /\ net = <<>>)
        /\ (call.exists /\ call.transfer # "ok") => RaisedCode({800, 200})

\* C16 amended: if the local path does not exist the call fails with MurError
\* 201 and makes no network or delegated-upload attempt; if it exists, the
\* Public adapter fails with MurError 800 on a non-success response and with
\* MurError 200 when the request fails, the Private adapter fails with
\* MurError 200 whenever the delegated upload raises, and returns normally
\* when the delegated upload skipped the file because the repository answered
\* that it already exists.
C16_UploadOutcome ==
    Uploaded =>
        /\ ~call.exists => (RaisedCode({201}) /\ net = <<>>)
        /\ (call.exists /\ call.adapter = "public") =>
              /\ net = <<"PUT">>
              /\ call.transfer = "not_ok" => RaisedCode({800})
              /\ call.transfer = "request_exception" => RaisedCode({200})
        /\ (call.exists /\ call.adapter = "private") =>
              /\ net = <<"twine_upload">>
              /\ call.transfer = "error" => RaisedCode({200})
              /\ call.transfer = "exists_skipped" => result.state = "returned"
        /\ result.state = "returned" => (call.exists /\ call.transfer # "error")

\* an existing file was sent by the Public adapter, the answer was not a
\* success and the call raised the upload error
C16_Witness ==
    /\ Uploaded
    /\ call.adapter = "public"
    /\ call.exists
    /\ call.transfer = "not_ok"
    /\ net = <<"PUT">>
    /\ RaisedCode({800})

---------------------------------------------------------------------------
(* C17 - C20: get_package_indexes *)

IndexesAsked(adapter) == call.op = "get_package_indexes" /\ call.adapter = adapter

\* the configuration file a lookup selects: the local one if it exists
SelectedFile == IF cfg_files["local"].exists THEN cfg_files["local"] ELSE cfg_files["global"]

\* the section each adapter reads
SectionOf(adapter) == IF adapter = "private" THEN "murmur-nexus" ELSE "global"

\* the file defines index-url, or extra-index-url, in the section of the adapter
DefinesIndex(c, adapter) ==
    c.exists /\ c.parses /\ c.section /\ c.name = SectionOf(adapter) /\ c.has_key
DefinesExtra(c, adapter) ==
    c.exists /\ c.parses /\ c.section /\ c.name = SectionOf(adapter) /\ c.has_extra

\* C17: whenever index-url is missing or empty in the private section of the
\* selected configuration file, the Private get_package_indexes raises
\* MurError 807 and returns no list; whenever it returns, the first element
\* is the configured, non-empty index-url.
C17_PrivateIndexRequired ==
    IndexesAsked("private") =>
        /\ (~DefinesIndex(SelectedFile, "private") \/ SelectedFile.index_url = <<>>)
              => RaisedCode({807})
        /\ result.state = "returned" =>
              /\ DefinesIndex(SelectedFile, "private")
              /\ SelectedFile.index_url # <<>>
              /\ Head(result.value) = SelectedFile.index_url
        /\ result.state \in {"returned", "raised"}

\* the private section of the selected file has an empty index-url and the
\* call raised the configuration error
C17_Witness ==
    /\ IndexesAsked("private")
    /\ DefinesIndex(SelectedFile, "private")
    /\ SelectedFile.index_url = <<>>
    /\ RaisedCode({807})

\* C18: for every configuration state the Public get_package_indexes returns
\* a list whose first element is a non-empty URL, the hardcoded default
\* registry URL standing in when index-url is not configured.
C18_PublicPrimaryNonEmpty ==
    IndexesAsked("public") =>
        /\ result.state = "returned"
        /\ Len(result.value) >= 1
        /\ Head(result.value) # <<>>
        /\ (SelectedFile.parses /\ ~DefinesIndex(SelectedFile, "public")) =>
              Head(result.value) = DEFAULT_MURMUR_INDEX_URL


\* a line that holds something besides white space
NotBlank(l) == \E i \in 1..Len(l) : ~IsSpace(l[i])

\* the entries a multi-line value denotes: its non-blank lines, each without
\* its surrounding white space, in the order of the value
EntriesOf(ls) ==
    LET kept == SelectSeq(ls, NotBlank)
    IN  [i \in 1..Len(kept) |-> Strip(kept[i])]

\* the lines a configured extra-index-url value was written as
LinesOf(value) == CHOOSE ls \in ExtraLineLists : JoinNL(ls) = value

\* the additional indexes a file configures for an adapter
ConfiguredExtras(c, adapter) ==
    IF DefinesExtra(c, adapter) THEN EntriesOf(LinesOf(c.extra)) ELSE <<>>

\* C19: the list get_package_indexes returns is the primary index followed
\* by the non-blank lines of extra-index-url, each stripped of surrounding
\* white space, in their order in the value; blank lines are dropped and
\* nothing else is added.
C19_PrimaryThenExtras ==
    \A a \in {"public", "private"} :
        (IndexesAsked(a) /\ result.state = "returned" /\ SelectedFile.parses) =>
            /\ Len(result.value) >= 1
            /\ DefinesIndex(SelectedFile, a) => Head(result.value) = SelectedFile.index_url
            /\ Tail(result.value) = ConfiguredExtras(SelectedFile, a)

\* a value of three lines, the middle one blank and the last one padded, was
\* returned as two entries after the primary index
C19_Witness ==
    /\ IndexesAsked("private")
    /\ result.state = "returned"
    /\ DefinesExtra(SelectedFile, "private")
    /\ Len(LinesOf(SelectedFile.extra)) > Len(result.value) - 1
    /\ Len(result.value) >= 2
    /\ \E i \in 1..Len(LinesOf(SelectedFile.extra)) :
           /\ NotBlank(LinesOf(SelectedFile.extra)[i])
           /\ Strip(LinesOf(SelectedFile.extra)[i]) # LinesOf(SelectedFile.extra)[i]


\* a file that is absent or can be read
Readable(c) == ~c.exists \/ c.parses

\* each key resolved on its own: the local value if the local file defines
\* the key, the global value otherwise
IndexResolves(a) ==
    DefinesIndex(cfg_files["local"], a) \/ DefinesIndex(cfg_files["global"], a)

ResolvedIndex(a) ==
    IF DefinesIndex(cfg_files["local"], a)
    THEN cfg_files["local"].index_url
    ELSE cfg_files["global"].index_url

ResolvedExtras(a) ==
    IF DefinesExtra(cfg_files["local"], a)
    THEN ConfiguredExtras(cfg_files["local"], a)
    ELSE ConfiguredExtras(cfg_files["global"], a)

\* C20: with no local configuration file get_package_indexes uses the
\* index-url and extra-index-url of the global file verbatim; with both
\* files each of the two keys is resolved independently, the local value if
\* the local file defines the key and the global value otherwise.
C20_PerKeyResolution ==
    \A a \in {"public", "private"} :
        (/\ IndexesAsked(a)
         /\ Readable(cfg_files["local"])
         /\ Readable(cfg_files["global"])) =>
            /\ (IndexResolves(a) /\ ResolvedIndex(a) # <<>>) =>
                  /\ result.state = "returned"
                  /\ Head(result.value) = ResolvedIndex(a)
            /\ result.state = "returned" => Tail(result.value) = ResolvedExtras(a)

\* the half of C20 about a missing local file
NoLocalFileUsesGlobal ==
    ~cfg_files["local"].exists => C20_PerKeyResolution

---------------------------------------------------------------------------
(* C21: a failing dependency install *)

\* the installer invocation at k is one for a declared dependency
IsDepCall(k) == log[k].op = "pip_install" /\ log[k].aux = "dep"

\* the dependencies the installer was invoked for between two positions
RECURSIVE DepCallsBetween(_, _)
DepCallsBetween(i, j) ==
    IF i + 1 >= j THEN <<>>
    ELSE (IF IsDepCall(i + 1) THEN <<log[i + 1].name>> ELSE <<>>)
            \o DepCallsBetween(i + 1, j)

\* the installer failed for a dependency inside the install call begun at i
DepFailedIn(i) ==
    \E k \in Between(i, InstallEndOf(i)) :
        log[k].op = "pip_exit" /\ IsDepCall(k - 1)

---------------------------------------------------------------------------
(* C22: from_manifest *)

\* C22: for every manifest whose dependencies is a list, the request built
\* by from_manifest has requires_dist equal to the dependencies of the
\* manifest, the same elements in the same order, and dependencies equal to
\* them as well.
C22_RequiresDistMirrorsDependencies ==
    (call.op = "from_manifest" /\ call.manifest.deps_kind = "list") =>
        /\ result.state = "returned"
        /\ result.value.requires_dist.set
        /\ result.value.requires_dist.items = call.manifest.deps
        /\ result.value.dependencies.set
        /\ result.value.dependencies.items = call.manifest.deps

\* a manifest with two dependencies, the second declared first, was turned
\* into a request that lists them in that order
C22_Witness ==
    /\ call.op = "from_manifest"
    /\ call.manifest.deps_kind = "list"
    /\ call.manifest.deps = <<DepE, DepD>>
    /\ result.state = "returned"
    /\ result.value.requires_dist.items = <<DepE, DepD>>

---------------------------------------------------------------------------
(* C23: classification of installer failures *)

\* the error kind the stderr text of the installer selects
StderrSelects(stderr) ==
    IF Contains(stderr, CONNECTION_REFUSED) \/ Contains(stderr, COULD_NOT_FIND)
    THEN 806
    ELSE 307

\* the installer invocation at k - 1 was the one for the artifact itself and
\* it exited nonzero
MainInstallFailedAt(k) ==
    /\ k > 1
    /\ log[k].op = "pip_exit"
    /\ log[k - 1].op = "pip_install"
    /\ log[k - 1].aux \in {"no-deps", "deps"}

\* C23: whenever the installer exits nonzero while installing an artifact,
\* on the managed as on the non-managed path, the typed error raised is
\* chosen from the installer's stderr: the connectivity kind (806) when it
\* contains 'Connection refused' or 'Could not find a version', the generic
\* install failure (307) otherwise.
C23_ErrorFromStderr ==
    \A k \in 1..Len(log) :
        (MainInstallFailedAt(k) /\ log[Len(log)].op = "install_end"
            /\ \A j \in Idx("install_end") : j > k => j = Len(log)) =>
            /\ exit.status = "error"
            /\ exit.err.kind = "MurError"
            /\ exit.err.code = StderrSelects(log[k].url)

\* the same, on the managed path only and for the substrings only
C23_ManagedSubstrings ==
    \A k \in 1..Len(log) :
        (MainInstallFailedAt(k) /\ log[k - 1].aux = "no-deps"
            /\ StderrSelects(log[k].url) = 806
            /\ log[Len(log)].op = "install_end"
            /\ \A j \in Idx("install_end") : j > k => j = Len(log)) =>
            exit.err.code = 806

\* the same, on the non-managed path only
C23_NonManaged ==
    \A k \in 1..Len(log) :
        (MainInstallFailedAt(k) /\ log[k - 1].aux = "deps"
            /\ log[Len(log)].op = "install_end"
            /\ \A j \in Idx("install_end") : j > k => j = Len(log)) =>
            exit.err.code = StderrSelects(log[k].url)

---------------------------------------------------------------------------
(* C24: the indexes of a dependency install *)

\* C24: on the managed path, with a non-empty list of extra indexes, every
\* declared dependency is installed with the first extra index as primary
\* index, the managed primary index as an extra index, and every remaining
\* extra index as a further extra index, so that no configured extra index
\* is left out of the invocation.
C24_EveryIndexPassed ==
    \A k \in 1..Len(log) :
        IsDepCall(k) =>
            /\ extra_index_urls # <<>>
            /\ log[k].url = Head(extra_index_urls)
            /\ log[k].extras = <<index_url>> \o Tail(extra_index_urls)

\* the same for lists of extra indexes other than those of two entries
C24_ExceptTwoExtras ==
    Len(extra_index_urls) # 2 => C24_EveryIndexPassed

---------------------------------------------------------------------------
(* C25, C29: publish_artifact of the Public adapter *)

Published == call.op = "publish_artifact"

\* where a call occurs among the calls publish_artifact made
CallsOf(what) == {i \in 1..Len(net) : net[i] = what}

\* C25: every publish call asks the Authentication Provider exactly once,
\* before the POST to /artifacts, and sends the token it got in that call;
\* if authentication fails, its typed error propagates unchanged and no POST
\* is issued.
C25_AuthenticateThenPost ==
    Published =>
        /\ Cardinality(CallsOf("authenticate")) = 1
        /\ Cardinality(CallsOf("POST")) <= 1
        /\ \A p \in CallsOf("POST") :
              /\ \A a \in CallsOf("authenticate") : a < p
              /\ call.auth.ok
              /\ call.sent.scheme = "Bearer"
              /\ call.sent.token = call.auth.token
        /\ ~call.auth.ok =>
              /\ CallsOf("POST") = {}
              /\ result.state = "raised"
              /\ result.err = call.auth.err

\* authentication failed with the expired-token error: that error came out
\* of publish_artifact and nothing was posted
C25_Witness ==
    /\ Published
    /\ ~call.auth.ok
    /\ call.auth.err.code = 504
    /\ result.state = "raised"
    /\ result.err.code = 504
    /\ net = <<"authenticate">>

\* a response to the POST was received
PublishAnswered == Published /\ call.auth.ok /\ call.response # NoResponse

\* C29: publish_artifact raises exactly when the HTTP status differs from
\* 200: a 200 response is returned to the caller as raw data, also when its
\* body failed decoding or validation, and every other status raises a typed
\* error and never returns.
C29_RaisesIffNot200 ==
    PublishAnswered =>
        /\ (result.state = "raised") <=> (call.response.status # 200)
        /\ result.state = "raised" => result.err.kind = "MurError"
        /\ result.state \in {"raised", "returned"}

\* the same for responses whose body is not JSON of another kind than an object
C29_ExceptNonObjectJson ==
    (PublishAnswered /\ call.response.kind = "json_other") \/ C29_RaisesIffNot200

---------------------------------------------------------------------------
(* C26: the name used for the clean-up *)

\* the name carries the scope of the configured username
ScopePrefixed(name) ==
    /\ username # NoneUser
    /\ username # <<>>
    /\ \E sep \in {"_", "-", "."} : StartsWith(name, username \o <<sep>>)

\* the name without a leading scope prefix
WithoutScopePrefix(name) ==
    IF ScopePrefixed(name) THEN Drop(name, Len(username) + 1) ELSE name

\* C26: for every username, none configured included, and every artifact
\* name, the name passed to _remove_from_init_file is the provided name
\* without its leading '<username>-', '<username>.' or '<username>_' when it
\* has one, and the provided name unchanged when it has none.
C26_UnscopedName ==
    \A i \in Idx("uninstall_begin") :
        \A k \in CleanUps(i, UninstallEndOf(i)) :
            log[k].name = WithoutScopePrefix(log[i].name)

\* the same for names that hold the prefix text nowhere but at their start
C26_PrefixOnlyInFront ==
    \A i \in Idx("uninstall_begin") :
        log[i].name # <<"g","u","-","t">> =>
            \A k \in CleanUps(i, UninstallEndOf(i)) :
                log[k].name = WithoutScopePrefix(log[i].name)

---------------------------------------------------------------------------
(* C27: get_config *)

\* the file defines the key in its murmur-nexus section
DefinesKey(c, key) ==
    /\ c.exists
    /\ c.parses
    /\ c.section
    /\ c.name = "murmur-nexus"
    /\ \/ key = "index-url" /\ c.has_key
       \/ key = "extra-index-url" /\ c.has_extra

ValueOfKey(c, key) == IF key = "index-url" THEN c.index_url ELSE c.extra

\* what get_config is to return for a key
Resolved(key) ==
    IF DefinesKey(cfg_files["local"], key)
    THEN SetTo(ValueOfKey(cfg_files["local"], key))
    ELSE IF DefinesKey(cfg_files["global"], key)
    THEN SetTo(ValueOfKey(cfg_files["global"], key))
    ELSE Unset

\* C27: get_config(key) resolves each key on its own with local precedence:
\* it returns the local file's value when the local file exists and defines
\* the key, otherwise the global file's value when the global file defines
\* it, otherwise None (the files being readable); and it never modifies or
\* creates either file.
C27_GetConfigPerKey ==
    /\ [](( /\ call.op = "get_config"
            /\ Readable(cfg_files["local"])
            /\ Readable(cfg_files["global"]) ) =>
               /\ result.state = "returned"
               /\ result.value = Resolved(call.key))
    /\ [][call'.op = "get_config" => cfg_files' = cfg_files]_vars

\* the local file exists without the key and the global file defines it:
\* the global value was returned
C27_Witness ==
    /\ call.op = "get_config"
    /\ call.key = "index-url"
    /\ cfg_files["local"].exists
    /\ cfg_files["local"].parses
    /\ ~DefinesKey(cfg_files["local"], "index-url")
    /\ DefinesKey(cfg_files["global"], "index-url")
    /\ result.state = "returned"
    /\ result.value = SetTo(cfg_files["global"].index_url)

---------------------------------------------------------------------------
(* C28: the import line and a failing install *)

\* the events a step added to the log
NewEvents == (Len(log) + 1)..Len(log')

\* the step ran an _install_artifact call that failed
InstallFailedInStep ==
    /\ NewEvents # {}
    /\ log'[Len(log')].op = "install_end"
    /\ log'[Len(log')].aux = "error"

\* the installer invocation at k of the new log installed the artifact itself
MainInstalledAt(k) ==
    /\ log'[k].op = "pip_install"
    /\ log'[k].aux \in {"no-deps", "deps"}
    /\ log'[k + 1].op # "pip_exit"

\* C28: in every install run the import line of an artifact is written only
\* after its _install_artifact call returned without error; when the call
\* fails at any point, also on the metadata request or on a dependency after
\* the main package was installed, no import line is written for it, the
\* package already installed is not rolled back, and no later artifact of
\* the group is processed.
C28_ImportOnlyAfterSuccess ==
    /\ [](\A k \in Idx("update_init") :
             /\ k > 1
             /\ log[k - 1].op = "install_end"
             /\ log[k - 1].name = log[k].name
             /\ log[k - 1].aux = "ok")
    /\ [](\A j \in Idx("install_end") :
             log[j].aux = "error" => (j = Len(log) \/ log[j + 1].op = "cmd_begin"))
    /\ [][ /\ fs' # fs =>
                \E k \in NewEvents : k > 1 /\ log'[k].op = "update_init"
           /\ InstallFailedInStep =>
                /\ fs' = fs
                /\ stack' = <<>>
                /\ pc' = "idle"
                /\ \A k \in NewEvents :
                      MainInstalledAt(k) =>
                          InstalledVersion(env', log'[k].name) # NotFound ]_vars

\* the main package of the agent was installed, the metadata request failed:
\* the package is installed, the file holds no import line for it, and its
\* tools were never begun
C28_Witness ==
    /\ manifest = ManifestAgentTools
    /\ LastCmdIs("install", TRUE)
    /\ exit.status = "error"
    /\ exit.err.code \in {803, 804, 806}
    /\ log[Len(log)].op = "install_end"
    /\ log[Len(log)].name = NameA
    /\ \E k \in Idx("pip_install") : InRun(k) /\ log[k].name = NameA
    /\ InstalledVersion(env, NameA) # NotFound
    /\ ~Contains(fs["artifacts"].text, ImportLine(NameA))
    /\ BegunFrom(RunStart) = <<NameA>>

---------------------------------------------------------------------------
(* C30: the frame of the clean-up *)

\* the line is an import from the package of the artifact
ImportsFrom(line, name) ==
    StartsWith(Strip(line), FROM_DOT \o ReplaceChar(Lower(name), "-", "_") \o <<".">>)

\* the lines of a file without the imports from the package of the artifact
OtherLines(lines, name) ==
    LET Stays(line) == ~ImportsFrom(line, name)
    IN  SelectSeq(lines, Stays)

\* the clean-ups a step ran to the end, as <<directory, name>>
CleanedInStep ==
    {<<log'[k].aux, log'[k].name>> : k \in {n \in NewEvents : log'[n].op = "clean_init"}}

\* C30: _remove_from_init_file(name) removes exactly the lines that, once
\* stripped, start with 'from .<normalized name>.', and leaves every other
\* line as it is and where it is; the import line of another artifact whose
\* name merely begins with the normalized name stays; a second call changes
\* nothing more; a file that was not cleaned is not written.
C30_CleanupFrame ==
    [][\A d \in AggregationDirs :
          /\ (\A c \in CleanedInStep : c[1] # d) => fs'[d] = fs[d]
          /\ \A c \in CleanedInStep :
                c[1] = d =>
                   /\ fs'[d].exists
                   /\ ReadLines(fs'[d].text) = OtherLines(ReadLines(fs[d].text), c[2])
                   /\ OtherLines(ReadLines(fs'[d].text), c[2]) = ReadLines(fs'[d].text)
                   /\ KeptLines(fs'[d].text, c[2]) = fs'[d].text ]_vars

\* tools/__init__.py held the imports of T-u and of t: after the clean-up for
\* t the import of T-u and the comment are what is left
C30_Witness ==
    /\ \E k \in Idx("clean_init") : log[k].aux = "tools" /\ log[k].name = NameT
    /\ fs["tools"].exists
    /\ fs["tools"].text = ImportLine(NameTU) \o <<NL>> \o <<"#", " ", "t", NL>>

====
